---- MODULE Spec2Model ----
(***************************************************************************)
(* Model of the LDAP control codec layer of vetinari/ldap, package         *)
(* controls: the control registry, the envelope codec (Encode / Decode),    *)
(* and the per-type codecs.                                                 *)
(*                                                                          *)
(* Go strings and []byte are sequences of byte values 0..255.  A           *)
(* *ber.Packet is a record holding the identifier, the pre-parsed Value,   *)
(* the Data buffer and the Children; the Description field of a packet is  *)
(* a debugging label that is never serialised and is left out.             *)
(***************************************************************************)
EXTENDS Integers, Sequences, FiniteSets, TLC

(***************************************************************************)
(* The registered OIDs, as the bytes of their strings.                     *)
(***************************************************************************)
\* "2.16.840.1.113730.3.4.2"
ControlOIDManageDsaIT ==
    <<50, 46, 49, 54, 46, 56, 52, 48, 46, 49, 46, 49, 49, 51, 55, 51, 48, 46, 51, 46, 52, 46, 50>>
\* "1.2.840.113556.1.4.319"
ControlOIDPaging ==
    <<49, 46, 50, 46, 56, 52, 48, 46, 49, 49, 51, 53, 53, 54, 46, 49, 46, 52, 46, 51, 49, 57>>
\* "1.3.6.1.4.1.42.2.27.8.5.1"
ControlOIDBeheraPasswordPolicy ==
    <<49, 46, 51, 46, 54, 46, 49, 46, 52, 46, 49, 46, 52, 50, 46, 50, 46, 50, 55, 46, 56, 46, 53, 46, 49>>
\* "2.16.840.1.113730.3.4.18"
ControlOIDProxiedAuthorization ==
    <<50, 46, 49, 54, 46, 56, 52, 48, 46, 49, 46, 49, 49, 51, 55, 51, 48, 46, 51, 46, 52, 46, 49, 56>>
\* "2.16.840.1.113730.3.4.4"
ControlOIDVChuPasswordMustChange ==
    <<50, 46, 49, 54, 46, 56, 52, 48, 46, 49, 46, 49, 49, 51, 55, 51, 48, 46, 51, 46, 52, 46, 52>>
\* "2.16.840.1.113730.3.4.5"
ControlOIDVChuPasswordWarning ==
    <<50, 46, 49, 54, 46, 56, 52, 48, 46, 49, 46, 49, 49, 51, 55, 51, 48, 46, 51, 46, 52, 46, 53>>
\* "1.3.6.1.1.13.1"
ControlOIDPreRead ==
    <<49, 46, 51, 46, 54, 46, 49, 46, 49, 46, 49, 51, 46, 49>>
\* "1.3.6.1.1.13.2"
ControlOIDPostRead ==
    <<49, 46, 51, 46, 54, 46, 49, 46, 49, 46, 49, 51, 46, 50>>

(***************************************************************************)
(* The BER packet abstraction (gopkg.in/asn1-ber.v1) as the codec uses it. *)
(***************************************************************************)
ClassUniversal == 0
ClassContext == 128
TypePrimitive == 0
TypeConstructed == 32
TagEOC == 0
TagBoolean == 1
TagInteger == 2
TagOctetString == 4
TagEnumerated == 10
TagUTF8String == 12
TagSequence == 16
LengthIndefinite == -1

(***************************************************************************)
(* Go integers.  An int64 (and the 64-bit int) is the sequence of its       *)
(* eight bytes in two's complement, most significant byte first; narrower   *)
(* integers (int8, byte counts, positions) are integers of TLA+.            *)
(***************************************************************************)
\* n >> (8*k) for an integer of TLA+, rounding down.
RECURSIVE shiftRightBytes(_, _)
shiftRightBytes(n, k) == IF k = 0 THEN n ELSE shiftRightBytes(n \div 256, k - 1)

\* int64(n) for a narrower integer n: sign extension to eight bytes.
Int64(n) == [j \in 1..8 |-> shiftRightBytes(n, 8 - j) % 256]

\* i < 0 for an int64.
Negative(i) == i[1] >= 128

\* i >> 8 for an int64: an arithmetic shift.
shiftRight8(i) == <<IF Negative(i) THEN 255 ELSE 0>> \o SubSeq(i, 1, 7)

\* -i for an int64 (or for a uint64 read as one): the complement plus one,
\* modulo 2^64.
RECURSIVE plusOne(_)
plusOne(b) ==
    IF b = <<>> THEN <<>>
    ELSE IF b[Len(b)] = 255 THEN Append(plusOne(SubSeq(b, 1, Len(b) - 1)), 0)
    ELSE [b EXCEPT ![Len(b)] = @ + 1]

Negate(i) == plusOne([j \in 1..8 |-> 255 - i[j]])

\* The integer of TLA+ that the low 32 bits of an int64 are, in two's
\* complement: the value of every int64 from -2^31 to 2^31 - 1.
Int32(i) ==
    (IF i[5] >= 128 THEN i[5] - 256 ELSE i[5]) * 16777216 + i[6] * 65536 + i[7] * 256 + i[8]

(***************************************************************************)
(* Go conversions the codecs use.                                           *)
(***************************************************************************)
\* int8(v) as it would be if the conversion kept the low 32 bits of the
\* value instead of its low 8.
Int8Unchanged(v) == Int32(v)

\* int8(v) for an int64 v: its last byte, in two's complement.
Int8(v) == IF v[8] >= 128 THEN v[8] - 256 ELSE v[8]

\* uint32(s) for an int64 s, as <<high 16 bits, low 16 bits>>.
Uint32(s) == <<s[5] * 256 + s[6], s[7] * 256 + s[8]>>

\* int64(size) for a uint32 size.
Int64OfUint32(size) ==
    <<0, 0, 0, 0, size[1] \div 256, size[1] % 256, size[2] \div 256, size[2] % 256>>

\* The bytes b of an unsigned number divided by 10, with r carried in from
\* the left: [q, r].
RECURSIVE divTen(_, _)
divTen(b, r) ==
    IF b = <<>> THEN [q |-> <<>>, r |-> r]
    ELSE LET cur == r * 256 + Head(b)
             rest == divTen(Tail(b), cur % 10)
         IN  [q |-> <<cur \div 10>> \o rest.q, r |-> rest.r]

\* The decimal digits of a uint64 m.
RECURSIVE digits(_)
digits(m) ==
    LET d == divTen(m, 0)
    IN  IF d.q = Int64(0) THEN <<48 + d.r>> ELSE Append(digits(d.q), 48 + d.r)

\* fmt.Sprintf("%d", n) for an int64 n
FormatInt(n) == IF Negative(n) THEN <<45>> \o digits(Negate(n)) ELSE digits(n)

\* The bytes b of an unsigned number times 10, plus carry: [m, carry], where
\* carry is what does not fit the bytes.
RECURSIVE timesTenPlus(_, _)
timesTenPlus(b, carry) ==
    IF b = <<>> THEN [m |-> <<>>, carry |-> carry]
    ELSE LET t == b[Len(b)] * 10 + carry
             rest == timesTenPlus(SubSeq(b, 1, Len(b) - 1), t \div 256)
         IN  [m |-> Append(rest.m, t % 256), carry |-> rest.carry]

\* strconv.ParseUint on decimal digits: [over, m]; over when the number
\* does not fit a uint64.
RECURSIVE parseDigits(_, _)
parseDigits(acc, s) ==
    IF s = <<>> THEN acc
    ELSE LET t == timesTenPlus(acc.m, Head(s) - 48)
         IN  parseDigits([over |-> acc.over \/ t.carry # 0, m |-> t.m], Tail(s))

\* strconv.ParseInt as it would be if it read a string that is no decimal
\* number as 0 instead of failing.
ParseIntNoError(s) ==
    LET signed == s # <<>> /\ Head(s) \in {43, 45}
        neg == signed /\ Head(s) = 45
        body == IF signed THEN Tail(s) ELSE s
        un == parseDigits([over |-> FALSE, m |-> Int64(0)], body)
    IN  IF body = <<>> \/ \E k \in 1..Len(body) : body[k] \notin 48..57
        THEN [ok |-> TRUE, v |-> Int64(0)]
        ELSE IF un.over THEN [ok |-> FALSE, v |-> Int64(0)]
        ELSE IF ~neg /\ un.m[1] >= 128 THEN [ok |-> FALSE, v |-> Int64(0)]
        ELSE IF neg /\ un.m[1] >= 128 /\ un.m # <<128, 0, 0, 0, 0, 0, 0, 0>>
            THEN [ok |-> FALSE, v |-> Int64(0)]
        ELSE [ok |-> TRUE, v |-> IF neg THEN Negate(un.m) ELSE un.m]

\* strconv.ParseInt(s, 10, 64): an optional sign, then one or more decimal
\* digits, anything else is a syntax error; a number of 2^63 or more, or
\* below -2^63, is a range error.  [ok, v]
ParseInt(s) ==
    LET signed == s # <<>> /\ Head(s) \in {43, 45}
        neg == signed /\ Head(s) = 45
        body == IF signed THEN Tail(s) ELSE s
        un == parseDigits([over |-> FALSE, m |-> Int64(0)], body)
    IN  IF body = <<>> \/ \E k \in 1..Len(body) : body[k] \notin 48..57
        THEN [ok |-> FALSE, v |-> Int64(0)]
        ELSE IF un.over THEN [ok |-> FALSE, v |-> Int64(0)]
        ELSE IF ~neg /\ un.m[1] >= 128 THEN [ok |-> FALSE, v |-> Int64(0)]
        ELSE IF neg /\ un.m[1] >= 128 /\ un.m # <<128, 0, 0, 0, 0, 0, 0, 0>>
            THEN [ok |-> FALSE, v |-> Int64(0)]
        ELSE [ok |-> TRUE, v |-> IF neg THEN Negate(un.m) ELSE un.m]

(***************************************************************************)
(* Packets.                                                                 *)
(***************************************************************************)
\* The dynamic type and content of a packet's Value (a Go interface{}); an
\* integer Value of any Go integer type is kept as its int64.
NilValue == [kind |-> "nil", i |-> Int64(0), s |-> <<>>]
BoolValue(b) == [kind |-> "bool", i |-> Int64(IF b THEN 1 ELSE 0), s |-> <<>>]
IntValue(kind, n) == [kind |-> kind, i |-> n, s |-> <<>>]
StringValue(str) == [kind |-> "string", i |-> Int64(0), s |-> str]
BytesValue(b) == [kind |-> "bytes", i |-> Int64(0), s |-> b]

\* A nil *ber.Packet.  tag is the Tag (a uint64) when it is below 2^31; a
\* Tag of 2^31 or more, which only readIdentifier can produce, is kept as
\* its base-128 digits in tagDigits, with -1 in tag, a value that no tag the
\* codec compares with equals.
NilPacket ==
    [nil |-> TRUE, cls |-> 0, typ |-> 0, tag |-> 0, tagDigits |-> <<>>, value |-> NilValue,
     data |-> <<>>, children |-> <<>>]

\* The base-128 digits of tag > 0, most significant first.
RECURSIVE base128(_)
base128(tag) == IF tag < 128 THEN <<tag>> ELSE Append(base128(tag \div 128), tag % 128)

\* ber.encodeHighTag, from the base-128 digits of the tag: every octet but
\* the last has the continuation bit.
encodeHighTag(ds) == [k \in 1..Len(ds) |-> IF k < Len(ds) THEN 128 + ds[k] ELSE ds[k]]

\* ber.encodeIdentifier: class, type and tag in one octet for a tag below
\* 31, else the tag 31 there and the tag in the high-tag-number form behind.
encodeIdentifier(cls, typ, tag) ==
    IF tag < 31 THEN <<cls + typ + tag>>
    ELSE <<cls + typ + 31>> \o encodeHighTag(base128(tag))

\* The big-endian bytes of n >= 0, at least one byte.
RECURSIVE BigEndian(_)
BigEndian(n) == IF n < 256 THEN <<n>> ELSE Append(BigEndian(n \div 256), n % 256)

\* ber.encodeLength: short form up to 127, long form above.
encodeLength(n) ==
    IF n <= 127 THEN <<n>>
    ELSE LET b == BigEndian(n) IN <<128 + Len(b)>> \o b

\* ber.int64Length: one byte, and one more for every shift by 8 bits that
\* it takes to bring i into -128..127.
RECURSIVE int64Length(_)
int64Length(i) ==
    IF \/ ~Negative(i) /\ (i[8] > 127 \/ \E k \in 1..7 : i[k] # 0)
       \/ Negative(i) /\ (i[8] < 128 \/ \E k \in 1..7 : i[k] # 255)
    THEN 1 + int64Length(shiftRight8(i)) ELSE 1

\* ber.encodeInteger: byte j of n is byte(i >> ((n-j)*8)), the byte of i
\* that stands n-j places before its last.
encodeInteger(i) ==
    LET n == int64Length(i)
    IN  [j \in 1..n |-> i[8 - (n - j)]]

\* ber.ParseInt64: more than eight bytes is an error; otherwise the bytes are
\* read big-endian and sign-extended from the first byte.  [ok, v]
ParseInt64(b) ==
    IF Len(b) > 8 THEN [ok |-> FALSE, v |-> Int64(0)]
    ELSE [ok |-> TRUE,
          v |-> [j \in 1..(8 - Len(b)) |-> IF b # <<>> /\ b[1] >= 128 THEN 255 ELSE 0] \o b]

\* ber.DecodeString: string(data); a Go string is its bytes.
DecodeString(data) == data

\* ber.Encode: a new packet; the Data buffer is filled only for a universal
\* OCTET STRING whose Value is a Go string.
BerEncode(cls, typ, tag, value) ==
    [nil |-> FALSE, cls |-> cls, typ |-> typ, tag |-> tag, tagDigits |-> <<>>,
     value |-> value,
     data |-> IF cls = ClassUniversal /\ tag = TagOctetString /\ value.kind = "string"
              THEN value.s ELSE <<>>,
     children |-> <<>>]

\* ber.NewString
NewString(cls, typ, tag, str) ==
    [BerEncode(cls, typ, tag, NilValue) EXCEPT !.value = StringValue(str), !.data = str]

\* ber.NewBoolean
NewBoolean(cls, typ, tag, b) ==
    [BerEncode(cls, typ, tag, NilValue) EXCEPT
        !.value = BoolValue(b), !.data = encodeInteger(Int64(IF b THEN 1 ELSE 0))]

\* ber.NewInteger; kind is the Go integer type of the argument and n its
\* int64.
NewInteger(cls, typ, tag, kind, n) ==
    [BerEncode(cls, typ, tag, NilValue) EXCEPT
        !.value = IntValue(kind, n), !.data = encodeInteger(n)]

\* (*ber.Packet).Bytes: identifier, length of Data, Data.
Bytes(p) ==
    (IF p.tagDigits # <<>> THEN <<p.cls + p.typ + 31>> \o encodeHighTag(p.tagDigits)
     ELSE encodeIdentifier(p.cls, p.typ, p.tag))
    \o encodeLength(Len(p.data)) \o p.data

\* (*ber.Packet).AppendChild
AppendChild(p, child) ==
    [p EXCEPT !.data = @ \o Bytes(child), !.children = Append(@, child)]

\* The loop of ber.readIdentifier over the octets of a high-tag-number
\* form: [ok, digits, read].  Each octet gives a base-128 digit of the tag;
\* a first digit 0 and a tenth octet are errors; the octet without the
\* continuation bit is the last.
RECURSIVE readHighTag(_, _, _)
readHighTag(b, sofar, read) ==
    IF b = <<>> THEN [ok |-> FALSE, digits |-> <<>>, read |-> read]
    ELSE LET octet(ds) ==
                 IF Len(ds) = 1 /\ ds[1] = 0
                     THEN [ok |-> FALSE, digits |-> <<>>, read |-> read + 1]
                 ELSE IF Len(ds) > 9 THEN [ok |-> FALSE, digits |-> <<>>, read |-> read + 1]
                 ELSE IF Head(b) < 128 THEN [ok |-> TRUE, digits |-> ds, read |-> read + 1]
                 ELSE readHighTag(Tail(b), ds, read + 1)
         IN  octet(Append(sofar, Head(b) % 128))

\* The tag with the base-128 digits ds, for a tag below 2^31.
RECURSIVE tagOf(_)
tagOf(ds) == IF ds = <<>> THEN 0 ELSE tagOf(SubSeq(ds, 1, Len(ds) - 1)) * 128 + ds[Len(ds)]

\* ber.readIdentifier: [ok, cls, typ, tag, tagDigits, read]; tag 31 in the
\* first octet starts the high-tag-number form.
readIdentifier(b) ==
    IF b = <<>>
    THEN [ok |-> FALSE, cls |-> 0, typ |-> 0, tag |-> 0, tagDigits |-> <<>>, read |-> 0]
    ELSE LET c == Head(b)
             cls == (c \div 64) * 64
             typ == ((c \div 32) % 2) * 32
             tag == c % 32
         IN  IF tag # 31
             THEN [ok |-> TRUE, cls |-> cls, typ |-> typ, tag |-> tag, tagDigits |-> <<>>,
                   read |-> 1]
             ELSE LET small(ds) == Len(ds) <= 4 \/ (Len(ds) = 5 /\ ds[1] < 8)
                      high(h) ==
                          [ok |-> h.ok, cls |-> cls, typ |-> typ,
                           tag |-> IF ~h.ok THEN 0
                                   ELSE IF small(h.digits) THEN tagOf(h.digits) ELSE -1,
                           tagDigits |-> IF h.ok /\ ~small(h.digits) THEN h.digits ELSE <<>>,
                           read |-> h.read]
                  IN  high(readHighTag(Tail(b), <<>>, 1))

\* ber.readLength: [ok, length, read]; length is a Go int, kept as an int64.
\* The long form holds up to eight length octets, read big-endian into an
\* int64 that starts at 0.
readLength(b) ==
    IF b = <<>> THEN [ok |-> FALSE, length |-> Int64(0), read |-> 0]
    ELSE LET c == Head(b) IN
         IF c = 255 THEN [ok |-> FALSE, length |-> Int64(0), read |-> 1]
         ELSE IF c = 128 THEN [ok |-> TRUE, length |-> Int64(LengthIndefinite), read |-> 1]
         ELSE IF c < 128 THEN [ok |-> TRUE, length |-> Int64(c), read |-> 1]
         ELSE LET n == c - 128 IN
              IF n > 8 THEN [ok |-> FALSE, length |-> Int64(0), read |-> 1]
              ELSE IF Len(b) < 1 + n THEN [ok |-> FALSE, length |-> Int64(0), read |-> Len(b)]
              ELSE [ok |-> TRUE,
                    length |-> [j \in 1..(8 - n) |-> 0] \o SubSeq(b, 2, 1 + n),
                    read |-> 1 + n]

(***************************************************************************)
(* The Value of a packet read from bytes.  Since release 1.4 of the BER     *)
(* package ber.readPacket checks the content of the universal string, REAL  *)
(* and GeneralizedTime types, and content that fails the check is an error  *)
(* of the read.  The functions of Go's unicode/utf8, strconv and time that  *)
(* the check calls are modelled as far as they decide its outcome.          *)
(***************************************************************************)
TagRealFloat == 9
TagPrintableString == 19
TagIA5String == 22
TagGeneralizedTime == 24

\* A float64 or time.Time Value, kept as the content it was parsed from; the
\* codec reads neither.
FloatValue(content) == [kind |-> "float64", i |-> Int64(0), s |-> content]
TimeValue(content) == [kind |-> "time", i |-> Int64(0), s |-> content]

\* utf8.Valid: every character is a byte below 0x80 or a lead byte with its
\* continuation bytes, no overlong form, no surrogate, nothing above
\* U+10FFFF.
RECURSIVE utf8Valid(_)
utf8Valid(b) ==
    IF b = <<>> THEN TRUE
    ELSE LET cont(k) == Len(b) >= k /\ b[k] \in 128..191
         IN  IF b[1] < 128 THEN utf8Valid(Tail(b))
             ELSE IF b[1] \in 194..223
                  THEN cont(2) /\ utf8Valid(SubSeq(b, 3, Len(b)))
             ELSE IF b[1] \in 224..239
                  THEN /\ cont(2) /\ cont(3)
                       /\ b[1] = 224 => b[2] >= 160
                       /\ b[1] = 237 => b[2] <= 159
                       /\ utf8Valid(SubSeq(b, 4, Len(b)))
             ELSE IF b[1] \in 240..244
                  THEN /\ cont(2) /\ cont(3) /\ cont(4)
                       /\ b[1] = 240 => b[2] >= 144
                       /\ b[1] = 244 => b[2] <= 143
                       /\ utf8Valid(SubSeq(b, 5, Len(b)))
             ELSE FALSE

\* ber.isPrintableString: letters, digits, space and ' ( ) + , - . / : = ?
isPrintableString(b) ==
    \A k \in 1..Len(b) :
        b[k] \in (97..122) \cup (65..90) \cup (48..57)
                 \cup {39, 40, 41, 43, 44, 45, 46, 47, 58, 61, 63, 32}

\* The check of an IA5String: no character of 0x7F or above.
isIA5String(b) == \A k \in 1..Len(b) : b[k] < 127

\* strconv's lower(c): the byte with the bit 0x20 set.
lower(c) == IF (c \div 32) % 2 = 1 THEN c ELSE c + 32
isDigit(c) == c \in 48..57
isHexLetter(c) == lower(c) \in 97..102

\* strconv.special: the strings ParseFloat reads as an infinity or a NaN,
\* in letters of any case: inf and infinity with an optional sign, and nan.
isSpecial(s) ==
    LET letters(t) == [k \in 1..Len(t) |-> IF t[k] \in 65..90 THEN t[k] + 32 ELSE t[k]]
    IN  \/ letters(IF s # <<>> /\ s[1] \in {43, 45} THEN Tail(s) ELSE s)
               \in {<<105, 110, 102>>, <<105, 110, 102, 105, 110, 105, 116, 121>>}
        \/ letters(s) = <<110, 97, 110>>

\* strconv.underscoreOK, after the sign and the base prefix: an underscore
\* stands between two digits, or behind the base prefix and before a digit.
\* saw is the kind of the character before: "0" a digit or the prefix, "_",
\* "!" another one, "^" none.
RECURSIVE underscoreScan(_, _, _, _)
underscoreScan(s, i, hex, saw) ==
    IF i > Len(s) THEN saw # "_"
    ELSE IF isDigit(s[i]) \/ (hex /\ isHexLetter(s[i])) THEN underscoreScan(s, i + 1, hex, "0")
    ELSE IF s[i] = 95 THEN saw = "0" /\ underscoreScan(s, i + 1, hex, "_")
    ELSE saw # "_" /\ underscoreScan(s, i + 1, hex, "!")

\* strconv.underscoreOK
underscoreOK(s) ==
    LET unsigned(t) ==
            IF Len(t) >= 2 /\ t[1] = 48 /\ lower(t[2]) \in {98, 111, 120}
            THEN underscoreScan(t, 3, lower(t[2]) = 120, "0")
            ELSE underscoreScan(t, 1, FALSE, "^")
    IN  unsigned(IF s # <<>> /\ s[1] \in {43, 45} THEN Tail(s) ELSE s)

\* The loop of strconv.readFloat over the mantissa, from position st.i on:
\* ds are the digits from the first one that is not 0, dp the place of the
\* point among them, us says that an underscore was met.
RECURSIVE scanMantissa(_, _, _)
scanMantissa(s, hex, st) ==
    IF st.i > Len(s) THEN st
    ELSE IF s[st.i] = 95 THEN scanMantissa(s, hex, [st EXCEPT !.i = @ + 1, !.us = TRUE])
    ELSE IF s[st.i] = 46
         THEN IF st.sawdot THEN st
              ELSE scanMantissa(s, hex, [st EXCEPT !.i = @ + 1, !.sawdot = TRUE,
                                                   !.dp = Len(st.ds)])
    ELSE IF s[st.i] = 48 /\ st.ds = <<>>
         THEN scanMantissa(s, hex, [st EXCEPT !.i = @ + 1, !.sawdigits = TRUE, !.dp = @ - 1])
    ELSE IF isDigit(s[st.i])
         THEN scanMantissa(s, hex, [st EXCEPT !.i = @ + 1, !.sawdigits = TRUE,
                                              !.ds = Append(@, s[st.i] - 48)])
    ELSE IF hex /\ isHexLetter(s[st.i])
         THEN scanMantissa(s, hex, [st EXCEPT !.i = @ + 1, !.sawdigits = TRUE,
                                              !.ds = Append(@, lower(s[st.i]) - 87)])
    ELSE st

\* The loop of strconv.readFloat over the digits of the exponent, which
\* stops counting at 10000.
RECURSIVE scanExponent(_, _)
scanExponent(s, st) ==
    IF st.i > Len(s) THEN st
    ELSE IF s[st.i] = 95 THEN scanExponent(s, [st EXCEPT !.i = @ + 1, !.us = TRUE])
    ELSE IF isDigit(s[st.i])
         THEN scanExponent(s, [st EXCEPT !.i = @ + 1,
                                         !.e = IF @ < 10000 THEN @ * 10 + s[st.i] - 48 ELSE @])
    ELSE st

\* strconv.readFloat: [ok, neg, hex, ds, dp, n] for the number the string
\* starts with: a sign, the prefix 0x of a hexadecimal number, the digits
\* with at most one point, and an exponent behind e (p, which must be there,
\* for a hexadecimal number).  The number is 0.ds times 10^dp (2^dp when
\* hexadecimal, ds being hexadecimal digits); n characters were read.
readFloat(s) ==
    LET bad == [ok |-> FALSE, neg |-> FALSE, hex |-> FALSE, ds |-> <<>>, dp |-> 0, n |-> 0]
        start == IF s # <<>> /\ s[1] \in {43, 45} THEN 2 ELSE 1
        hex == start + 2 <= Len(s) /\ s[start] = 48 /\ lower(s[start + 1]) = 120
        done(m, dp, n, us) ==
            IF us /\ ~underscoreOK(SubSeq(s, 1, n)) THEN bad
            ELSE [ok |-> TRUE, neg |-> s[1] = 45, hex |-> hex, ds |-> m.ds, dp |-> dp,
                  n |-> n]
        exponent(m, dp, esign, x) == done(m, dp + esign * x.e, x.i - 1, m.us \/ x.us)
        afterSign(m, dp, j, esign) ==
            IF j > Len(s) \/ ~isDigit(s[j]) THEN bad
            ELSE exponent(m, dp, esign, scanExponent(s, [i |-> j, e |-> 0, us |-> FALSE]))
        mantissa(m, dp) ==
            IF ~m.sawdigits THEN bad
            ELSE IF m.i <= Len(s) /\ lower(s[m.i]) = (IF hex THEN 112 ELSE 101)
                 THEN IF m.i + 1 > Len(s) THEN bad
                      ELSE afterSign(m, dp, IF s[m.i + 1] \in {43, 45} THEN m.i + 2 ELSE m.i + 1,
                                     IF s[m.i + 1] = 45 THEN -1 ELSE 1)
            ELSE IF hex THEN bad
            ELSE done(m, dp, m.i - 1, m.us)
        point(m) ==
            mantissa(m, (IF m.sawdot THEN m.dp ELSE Len(m.ds)) * (IF hex THEN 4 ELSE 1))
    IN  IF s = <<>> THEN bad
        ELSE point(scanMantissa(s, hex, [i |-> IF hex THEN start + 2 ELSE start,
                                         sawdot |-> FALSE, sawdigits |-> FALSE,
                                         ds |-> <<>>, dp |-> 0, us |-> FALSE]))

\* The decimal fractions 0.ds and 0.ts compared: -1, 0 or 1.
compareDigits(ds, ts) ==
    LET d(k) == IF k <= Len(ds) THEN ds[k] ELSE 0
        t(k) == IF k <= Len(ts) THEN ts[k] ELSE 0
        first(diff) ==
            IF diff = {} THEN 0
            ELSE IF \E k \in diff : (\A j \in diff : k <= j) /\ d(k) < t(k) THEN -1
            ELSE 1
    IN  first({k \in 1..(Len(ds) + Len(ts)) : d(k) # t(k)})

\* The digits of 2^1024 - 2^970, which is 0.17976... times 10^309: the
\* least number that rounds to a float64 infinity.
OverflowDigits ==
    <<1, 7, 9, 7, 6, 9, 3, 1, 3, 4, 8, 6, 2, 3, 1, 5, 8, 0, 7, 9, 3, 7, 2, 8,
      9, 7, 1, 4, 0, 5, 3, 0, 3, 4, 1, 5, 0, 7, 9, 9, 3, 4, 1, 3, 2, 7, 1, 0,
      0, 3, 7, 8, 2, 6, 9, 3, 6, 1, 7, 3, 7, 7, 8, 9, 8, 0, 4, 4, 4, 9, 6, 8,
      2, 9, 2, 7, 6, 4, 7, 5, 0, 9, 4, 6, 6, 4, 9, 0, 1, 7, 9, 7, 7, 5, 8, 7,
      2, 0, 7, 0, 9, 6, 3, 3, 0, 2, 8, 6, 4, 1, 6, 6, 9, 2, 8, 8, 7, 9, 1, 0,
      9, 4, 6, 5, 5, 5, 5, 4, 7, 8, 5, 1, 9, 4, 0, 4, 0, 2, 6, 3, 0, 6, 5, 7,
      4, 8, 8, 6, 7, 1, 5, 0, 5, 8, 2, 0, 6, 8, 1, 9, 0, 8, 9, 0, 2, 0, 0, 0,
      7, 0, 8, 3, 8, 3, 6, 7, 6, 2, 7, 3, 8, 5, 4, 8, 4, 5, 8, 1, 7, 7, 1, 1,
      5, 3, 1, 7, 6, 4, 4, 7, 5, 7, 3, 0, 2, 7, 0, 0, 6, 9, 8, 5, 5, 5, 7, 1,
      3, 6, 6, 9, 5, 9, 6, 2, 2, 8, 4, 2, 9, 1, 4, 8, 1, 9, 8, 6, 0, 8, 3, 4,
      9, 3, 6, 4, 7, 5, 2, 9, 2, 7, 1, 9, 0, 7, 4, 1, 6, 8, 4, 4, 4, 3, 6, 5,
      5, 1, 0, 7, 0, 4, 3, 4, 2, 7, 1, 1, 5, 5, 9, 6, 9, 9, 5, 0, 8, 0, 9, 3,
      0, 4, 2, 8, 8, 0, 1, 7, 7, 9, 0, 4, 1, 7, 4, 4, 9, 7, 7, 9, 2>>

\* The digits of 2^-1075, which is 0.24703... times 10^-323: the greatest
\* number that rounds to the float64 zero.
UnderflowDigits ==
    <<2, 4, 7, 0, 3, 2, 8, 2, 2, 9, 2, 0, 6, 2, 3, 2, 7, 2, 0, 8, 8, 2, 8, 4,
      3, 9, 6, 4, 3, 4, 1, 1, 0, 6, 8, 6, 1, 8, 2, 5, 2, 9, 9, 0, 1, 3, 0, 7,
      1, 6, 2, 3, 8, 2, 2, 1, 2, 7, 9, 2, 8, 4, 1, 2, 5, 0, 3, 3, 7, 7, 5, 3,
      6, 3, 5, 1, 0, 4, 3, 7, 5, 9, 3, 2, 6, 4, 9, 9, 1, 8, 1, 8, 0, 8, 1, 7,
      9, 9, 6, 1, 8, 9, 8, 9, 8, 2, 8, 2, 3, 4, 7, 7, 2, 2, 8, 5, 8, 8, 6, 5,
      4, 6, 3, 3, 2, 8, 3, 5, 5, 1, 7, 7, 9, 6, 9, 8, 9, 8, 1, 9, 9, 3, 8, 7,
      3, 9, 8, 0, 0, 5, 3, 9, 0, 9, 3, 9, 0, 6, 3, 1, 5, 0, 3, 5, 6, 5, 9, 5,
      1, 5, 5, 7, 0, 2, 2, 6, 3, 9, 2, 2, 9, 0, 8, 5, 8, 3, 9, 2, 4, 4, 9, 1,
      0, 5, 1, 8, 4, 4, 3, 5, 9, 3, 1, 8, 0, 2, 8, 4, 9, 9, 3, 6, 5, 3, 6, 1,
      5, 2, 5, 0, 0, 3, 1, 9, 3, 7, 0, 4, 5, 7, 6, 7, 8, 2, 4, 9, 2, 1, 9, 3,
      6, 5, 6, 2, 3, 6, 6, 9, 8, 6, 3, 6, 5, 8, 4, 8, 0, 7, 5, 7, 0, 0, 1, 5,
      8, 5, 7, 6, 9, 2, 6, 9, 9, 0, 3, 7, 0, 6, 3, 1, 1, 9, 2, 8, 2, 7, 9, 5,
      5, 8, 5, 5, 1, 3, 3, 2, 9, 2, 7, 8, 3, 4, 3, 3, 8, 4, 0, 9, 3, 5, 1, 9,
      7, 8, 0, 1, 5, 5, 3, 1, 2, 4, 6, 5, 9, 7, 2, 6, 3, 5, 7, 9, 5, 7, 4, 6,
      2, 2, 7, 6, 6, 4, 6, 5, 2, 7, 2, 8, 2, 7, 2, 2, 0, 0, 5, 6, 3, 7, 4, 0,
      0, 6, 4, 8, 5, 4, 9, 9, 9, 7, 7, 0, 9, 6, 5, 9, 9, 4, 7, 0, 4, 5, 4, 0,
      2, 0, 8, 2, 8, 1, 6, 6, 2, 2, 6, 2, 3, 7, 8, 5, 7, 3, 9, 3, 4, 5, 0, 7,
      3, 6, 3, 3, 9, 0, 0, 7, 9, 6, 7, 7, 6, 1, 9, 3, 0, 5, 7, 7, 5, 0, 6, 7,
      4, 0, 1, 7, 6, 3, 2, 4, 6, 7, 3, 6, 0, 0, 9, 6, 8, 9, 5, 1, 3, 4, 0, 5,
      3, 5, 5, 3, 7, 4, 5, 8, 5, 1, 6, 6, 6, 1, 1, 3, 4, 2, 2, 3, 7, 6, 6, 6,
      7, 8, 6, 0, 4, 1, 6, 2, 1, 5, 9, 6, 8, 0, 4, 6, 1, 9, 1, 4, 4, 6, 7, 2,
      9, 1, 8, 4, 0, 3, 0, 0, 5, 3, 0, 0, 5, 7, 5, 3, 0, 8, 4, 9, 0, 4, 8, 7,
      6, 5, 3, 9, 1, 7, 1, 1, 3, 8, 6, 5, 9, 1, 6, 4, 6, 2, 3, 9, 5, 2, 4, 9,
      1, 2, 6, 2, 3, 6, 5, 3, 8, 8, 1, 8, 7, 9, 6, 3, 6, 2, 3, 9, 3, 7, 3, 2,
      8, 0, 4, 2, 3, 8, 9, 1, 0, 1, 8, 6, 7, 2, 3, 4, 8, 4, 9, 7, 6, 6, 8, 2,
      3, 5, 0, 8, 9, 8, 6, 3, 3, 8, 8, 5, 8, 7, 9, 2, 5, 6, 2, 8, 3, 0, 2, 7,
      5, 5, 9, 9, 5, 6, 5, 7, 5, 2, 4, 4, 5, 5, 5, 0, 7, 2, 5, 5, 1, 8, 9, 3,
      1, 3, 6, 9, 0, 8, 3, 6, 2, 5, 4, 7, 7, 9, 1, 8, 6, 9, 4, 8, 6, 6, 7, 9,
      9, 4, 9, 6, 8, 3, 2, 4, 0, 4, 9, 7, 0, 5, 8, 2, 1, 0, 2, 8, 5, 1, 3, 1,
      8, 5, 4, 5, 1, 3, 9, 6, 2, 1, 3, 8, 3, 7, 7, 2, 2, 8, 2, 6, 1, 4, 5, 4,
      3, 7, 6, 9, 3, 4, 1, 2, 5, 3, 2, 0, 9, 8, 5, 9, 1, 3, 2, 7, 6, 6, 7, 2,
      3, 6, 3, 2, 8, 1, 2, 5>>

\* How a decimal number 0.ds times 10^dp rounds to a float64: "zero" when it
\* is 0, "under" when it rounds to 0, "over" when it rounds to an infinity,
\* "finite" otherwise.
decimalSize(ds, dp) ==
    IF ds = <<>> THEN "zero"
    ELSE IF dp > 309 \/ (dp = 309 /\ compareDigits(ds, OverflowDigits) >= 0) THEN "over"
    ELSE IF dp < -323 \/ (dp = -323 /\ compareDigits(ds, UnderflowDigits) <= 0) THEN "under"
    ELSE "finite"

\* The bits of the hexadecimal digits ds.
bitsOf(ds) ==
    [k \in 1..(4 * Len(ds)) |->
        (ds[(k - 1) \div 4 + 1] \div (CASE (k - 1) % 4 = 0 -> 8 [] (k - 1) % 4 = 1 -> 4
                                        [] (k - 1) % 4 = 2 -> 2 [] OTHER -> 1)) % 2]

\* The same for a hexadecimal number 0.ds times 2^dp (strconv.atofHex): the
\* number lies from 2^(top-1) up to 2^top; it rounds to an infinity when it
\* reaches 2^1024 with its first 54 bits, all ones, and to 0 when it is at
\* most 2^-1075.
hexSize(ds, dp) ==
    LET lead(h) == IF h >= 8 THEN 0 ELSE IF h >= 4 THEN 1 ELSE IF h >= 2 THEN 2 ELSE 3
        ones(bits, from) == \A k \in 1..54 : from + k <= Len(bits) /\ bits[from + k] = 1
        size(top) ==
            IF top > 1024 \/ (top = 1024 /\ ones(bitsOf(ds), lead(ds[1])))
                THEN "over"
            ELSE IF \/ top < -1074
                    \/ /\ top = -1074 /\ ds[1] \in {1, 2, 4, 8}
                       /\ \A k \in 2..Len(ds) : ds[k] = 0
                THEN "under"
            ELSE "finite"
    IN  IF ds = <<>> THEN "zero" ELSE size(dp - lead(ds[1]))

\* strconv.ParseFloat(s, 64): [ok, zero, neg]; an error when s is not a
\* number as a whole or the number rounds to an infinity; zero when the
\* result is 0, neg its sign.
ParseFloat(s) ==
    LET rounded(r, size) ==
            [ok |-> size # "over", zero |-> size \in {"zero", "under"}, neg |-> r.neg]
        read(r) ==
            IF ~r.ok \/ r.n # Len(s) THEN [ok |-> FALSE, zero |-> FALSE, neg |-> FALSE]
            ELSE rounded(r, IF r.hex THEN hexSize(r.ds, r.dp) ELSE decimalSize(r.ds, r.dp))
    IN  IF isSpecial(s) THEN [ok |-> TRUE, zero |-> FALSE, neg |-> s[1] = 45]
        ELSE read(readFloat(s))

\* i << 1 for an int64.
shiftLeft1(i) ==
    [j \in 1..8 |-> (2 * i[j] + (IF j < 8 /\ i[j + 1] >= 128 THEN 1 ELSE 0)) % 256]

\* The exponent of 2 that base^e is, k*e for the base 2^k and an int64 e;
\* an e below -2000 counts as -2000 and one above 2000 as 2000, far beyond
\* the exponents at which math.Pow gives 0 or an infinity.  An int64 from
\* -2^31 to 2^31 - 1 has its four high bytes and the top bit of the fifth
\* all alike.
scaledExponent(e, k) ==
    IF Negative(e)
    THEN IF (\E j \in 1..4 : e[j] # 255) \/ e[5] < 128 \/ Int32(e) < -2000 THEN -2000
         ELSE k * Int32(e)
    ELSE IF (\E j \in 1..4 : e[j] # 0) \/ e[5] >= 128 \/ Int32(e) > 2000 THEN 2000
    ELSE k * Int32(e)

\* ber.parseBinaryFloat, reduced to whether the result is +0, which
\* ber.ParseReal refuses: the mantissa (mant << scale, negated if the sign
\* bit of info is set) times math.Pow(base, exponent), which is 0 when
\* base^exponent is 2^-1075 or less and an infinity when it is 2^1024 or
\* more.
binaryPlusZero(info, exponent, mant) ==
    LET scale == (info \div 4) % 4
        shifted == IF scale = 0 THEN mant
                   ELSE IF scale = 1 THEN shiftLeft1(mant)
                   ELSE IF scale = 2 THEN shiftLeft1(shiftLeft1(mant))
                   ELSE shiftLeft1(shiftLeft1(shiftLeft1(mant)))
        product(mantissa, e2) ==
            IF mantissa = Int64(0) THEN e2 < 1024
            ELSE ~Negative(mantissa) /\ e2 <= -1075
    IN  product(IF (info \div 64) % 2 = 1 THEN Negate(shifted) ELSE shifted,
                scaledExponent(exponent, CASE (info \div 16) % 4 = 0 -> 1
                                           [] (info \div 16) % 4 = 1 -> 3
                                           [] OTHER -> 4))

\* ber.parseBinaryFloat: the octets of the exponent, one to three or as
\* many as the next octet says, then up to eight octets of mantissa; base
\* bits 11 are an error.  TRUE when the content parses.
parseBinaryFloat(v) ==
    LET fixed(expLen, w) ==
            /\ expLen <= Len(w) /\ Len(w) - expLen <= 8
            /\ ~binaryPlusZero(v[1], ParseInt64(SubSeq(w, 1, expLen)).v,
                               ParseInt64(SubSeq(w, expLen + 1, Len(w))).v)
    IN  /\ (v[1] \div 16) % 4 # 3
        /\ IF v[1] % 4 = 3
           THEN Len(v) >= 3 /\ v[2] <= 8 /\ fixed(v[2], SubSeq(v, 3, Len(v)))
           ELSE fixed((v[1] % 4) + 1, Tail(v))

\* ber.parseSpecialFloat: one octet, for +Inf, -Inf, NaN or -0.
parseSpecialFloat(v) == Len(v) = 1 /\ v[1] \in 64..67

\* strings.TrimLeft(s, " ")
RECURSIVE trimLeftSpaces(_)
trimLeftSpaces(s) == IF s # <<>> /\ s[1] = 32 THEN trimLeftSpaces(Tail(s)) ELSE s

\* ber.parseDecimalFloat: the text behind the first octet, without leading
\* spaces, is read by strconv.ParseInt in form NR1 and, commas turned into
\* points, by strconv.ParseFloat in forms NR2 and NR3; a zero of either
\* sign is an error.  TRUE when the content parses.
parseDecimalFloat(v) ==
    LET nr1(r) == r.ok /\ r.v # Int64(0)
        nr23(r) == r.ok /\ ~r.zero
        text(t) ==
            IF v[1] = 1 THEN nr1(ParseInt(t))
            ELSE IF v[1] \in {2, 3}
                 THEN nr23(ParseFloat([k \in 1..Len(t) |-> IF t[k] = 44 THEN 46 ELSE t[k]]))
            ELSE FALSE
    IN  text(trimLeftSpaces(Tail(v)))

\* ber.ParseReal: no content is the number 0; the first octet tells the
\* binary, the special and the decimal encodings apart.  TRUE when the
\* content parses.
ParseReal(v) ==
    IF v = <<>> THEN TRUE
    ELSE IF v[1] >= 128 THEN parseBinaryFloat(v)
    ELSE IF v[1] >= 64 THEN parseSpecialFloat(v)
    ELSE parseDecimalFloat(v)

\* bytes.IndexAny: the place, counted from 0, of the first byte of s that
\* is in chars, or -1.
IndexAny(s, chars) ==
    IF \E k \in 1..Len(s) : s[k] \in chars
    THEN (CHOOSE k \in 1..Len(s) : s[k] \in chars /\ \A j \in 1..(k - 1) : s[j] \notin chars) - 1
    ELSE -1

\* The number the two digits at places k and k+1 (from 1) of s are.
twoDigits(s, k) == (s[k] - 48) * 10 + s[k + 1] - 48

\* time's daysIn
daysIn(month, year) ==
    IF month = 2
    THEN IF year % 4 = 0 /\ (year % 100 # 0 \/ year % 400 = 0) THEN 29 ELSE 28
    ELSE IF month \in {4, 6, 9, 11} THEN 30 ELSE 31

\* time.Parse on the layout ber.ParseGeneralizedTime chose for str: year,
\* month, day and hour, then minute and second if fields says so (10, 12 or
\* 14 digits), a fraction of the second behind a point, and from place tz
\* (counted from 0) on either Z or a sign with the hours, or the hours and
\* minutes, of the offset.  TRUE when str parses.
parseTime(str, fields, tz) ==
    /\ \A k \in 1..fields : isDigit(str[k])
    /\ twoDigits(str, 5) \in 1..12
    /\ twoDigits(str, 7) \in
          1..daysIn(twoDigits(str, 5), twoDigits(str, 1) * 100 + twoDigits(str, 3))
    /\ twoDigits(str, 9) < 24
    /\ fields >= 12 => twoDigits(str, 11) < 60
    /\ fields >= 14 => twoDigits(str, 13) < 60
    /\ tz > fields =>
          /\ str[fields + 1] = 46 /\ tz >= fields + 2
          /\ \A k \in (fields + 2)..tz : isDigit(str[k])
    /\ \/ Len(str) - tz = 1 /\ str[tz + 1] = 90
       \/ /\ Len(str) - tz \in {3, 5}
          /\ str[tz + 1] \in {43, 45}
          /\ \A k \in (tz + 2)..Len(str) : isDigit(str[k])
          /\ twoDigits(str, tz + 2) <= 24
          /\ Len(str) - tz = 5 => twoDigits(str, tz + 4) <= 60

\* ber.ParseGeneralizedTime: the first of Z + - starts the time zone; with
\* no point or comma the zone starts at place 10, 12 or 14; a point at
\* place 10 or 12 starts a fraction of the hour or minute, read by
\* strconv.ParseFloat; a point at place 14 starts a fraction of the second,
\* read by time.Parse.  TRUE when the content parses.
ParseGeneralizedTime(v) ==
    LET zone(tz, dot) ==
            IF tz < 0 THEN FALSE
            ELSE IF dot = -1 THEN tz \in {10, 12, 14} /\ parseTime(v, tz, tz)
            ELSE IF dot \in {10, 12}
                 THEN /\ tz >= dot
                      /\ ParseFloat(<<46>> \o SubSeq(v, dot + 2, tz)).ok
                      /\ parseTime(SubSeq(v, 1, dot) \o SubSeq(v, tz + 1, Len(v)), dot, dot)
            ELSE IF dot = 14 THEN tz >= dot /\ parseTime([v EXCEPT ![15] = 46], 14, tz)
            ELSE FALSE
    IN  zone(IndexAny(v, {90, 43, 45}), IndexAny(v, {46, 44}))

\* The switch of ber.readPacket on the tag of a universal primitive packet:
\* [ok, value], the Value the packet gets and whether the content is one
\* the tag allows.  A string that fails its check leaves the Value nil; a
\* REAL or a GeneralizedTime that does not parse leaves the zero float64 or
\* time.Time that the parser returned with its error.
parsedValue(tag, content) ==
    LET checked(ok, v, zero) == [ok |-> ok, value |-> IF ok THEN v ELSE zero]
    IN  IF tag = TagBoolean
            THEN checked(TRUE, BoolValue(ParseInt64(content).v # Int64(0)), NilValue)
        ELSE IF tag \in {TagInteger, TagEnumerated}
            THEN checked(TRUE, IntValue("int64", ParseInt64(content).v), NilValue)
        ELSE IF tag = TagOctetString
            THEN checked(TRUE, StringValue(DecodeString(content)), NilValue)
        ELSE IF tag = TagRealFloat
            THEN checked(ParseReal(content), FloatValue(content), FloatValue(<<>>))
        ELSE IF tag = TagUTF8String
            THEN checked(utf8Valid(content), StringValue(DecodeString(content)), NilValue)
        ELSE IF tag = TagPrintableString
            THEN checked(isPrintableString(content), StringValue(DecodeString(content)),
                         NilValue)
        ELSE IF tag = TagIA5String
            THEN checked(isIA5String(content), StringValue(DecodeString(content)), NilValue)
        ELSE IF tag = TagGeneralizedTime
            THEN checked(ParseGeneralizedTime(content), TimeValue(content), TimeValue(<<>>))
        ELSE checked(TRUE, NilValue, NilValue)

\* ber.isEOCPacket
isEOCPacket(p) ==
    /\ p.tag = TagEOC /\ p.cls = ClassUniversal /\ p.typ = TypePrimitive
    /\ p.data = <<>> /\ p.children = <<>>

\* A length (an int64) that is 0 or more and at most
\* ber.MaxPacketLengthBytes, which is 2^31 - 1.
withinMaxPacketLength(length) == (\A k \in 1..4 : length[k] = 0) /\ length[5] < 128

\* n > length, for a byte count n and a length that is an int64.
exceeds(n, length) ==
    Negative(length) \/ (withinMaxPacketLength(length) /\ n > Int32(length))

\* ber.readPacket: [ok, pkt, read] for the first packet of the bytes b.
RECURSIVE readPacket(_)
RECURSIVE readChildren(_, _, _, _)
readChildren(b, length, contentRead, p) ==
    IF length # Int64(LengthIndefinite) /\ Int64(contentRead) = length
        THEN [ok |-> TRUE, pkt |-> p, read |-> contentRead]
    ELSE IF length # Int64(LengthIndefinite) /\ exceeds(contentRead, length)
        THEN [ok |-> FALSE, pkt |-> NilPacket, read |-> contentRead]
    ELSE LET child(c) ==
                 IF ~c.ok THEN [ok |-> FALSE, pkt |-> NilPacket, read |-> contentRead]
                 ELSE IF isEOCPacket(c.pkt)
                      THEN [ok |-> length = Int64(LengthIndefinite),
                            pkt |-> IF length = Int64(LengthIndefinite) THEN p ELSE NilPacket,
                            read |-> contentRead + c.read]
                      ELSE readChildren(SubSeq(b, c.read + 1, Len(b)), length,
                                        contentRead + c.read, AppendChild(p, c.pkt))
         IN  child(readPacket(b))

\* The packet is read in three steps: the identifier id, the length ln
\* behind it, and the content behind the hdr octets of the two, into the
\* packet p that ber.Encode made of the identifier.
readPacket(b) ==
    LET bad == [ok |-> FALSE, pkt |-> NilPacket, read |-> 0]
        constructed(hdr, r) == [ok |-> r.ok, pkt |-> r.pkt, read |-> hdr + r.read]
        parsed(hdr, p, content, v) ==
            [ok |-> v.ok, pkt |-> [p EXCEPT !.data = content, !.value = v.value],
             read |-> hdr + Len(content)]
        primitive(id, hdr, p, content) ==
            parsed(hdr, p, content,
                   IF id.cls = ClassUniversal THEN parsedValue(id.tag, content)
                   ELSE [ok |-> TRUE, value |-> NilValue])
        content(id, ln, hdr, rest, p) ==
            IF ~id.ok THEN bad
            ELSE IF ~ln.ok THEN bad
            ELSE IF ln.length = Int64(LengthIndefinite) /\ id.typ = TypePrimitive THEN bad
            ELSE IF Negative(ln.length) /\ ln.length # Int64(LengthIndefinite) THEN bad
            ELSE IF id.typ = TypeConstructed
                 THEN constructed(hdr, readChildren(rest, ln.length, 0, p))
            ELSE IF ~withinMaxPacketLength(ln.length) THEN bad
            ELSE IF Len(rest) < Int32(ln.length) THEN bad
            ELSE primitive(id, hdr, p, SubSeq(rest, 1, Int32(ln.length)))
        length(id, ln) ==
            content(id, ln, id.read + ln.read, SubSeq(b, id.read + ln.read + 1, Len(b)),
                    [BerEncode(id.cls, id.typ, id.tag, NilValue)
                        EXCEPT !.tagDigits = id.tagDigits])
        identifier(id) == length(id, readLength(SubSeq(b, id.read + 1, Len(b))))
    IN  identifier(readIdentifier(b))

\* ber.DecodePacketErr: [ok, pkt], a nil packet with an error
DecodePacketErr(data) ==
    LET result(r) == [ok |-> r.ok, pkt |-> IF r.ok THEN r.pkt ELSE NilPacket]
    IN  result(readPacket(data))

(***************************************************************************)
(* Control values.  Every control is a record with the fields of all the   *)
(* control types; type is the Go type of the value and the fields of the    *)
(* other types keep their zero value.  NilControl is a nil Control.         *)
(***************************************************************************)
NilControl ==
    [type |-> "nil", b |-> FALSE, Critical |-> FALSE, Size |-> <<0, 0>>, Cookie |-> <<>>,
     Expire |-> Int64(0), Grace |-> Int64(0), Error |-> 0, ErrorString |-> "",
     AuthzID |-> <<>>, n |-> Int64(0), IsRequest |-> FALSE, ControlOID |-> <<>>, Attrs |-> <<>>, DN |-> <<>>,
     AttrVals |-> <<>>, oid |-> <<>>, criticality |-> FALSE]

\* ManageDsaIT(b)
ManageDsaIT(b) == [NilControl EXCEPT !.type = "ManageDsaIT", !.b = b]

\* &Paging{Critical, Size, Cookie}; Size is a uint32 kept as its two 16-bit halves.
Paging(crit, size, cookie) ==
    [NilControl EXCEPT !.type = "Paging", !.Critical = crit, !.Size = size, !.Cookie = cookie]

\* &BeheraPasswordPolicy{Expire, Grace, Error, ErrorString, Critical}; Expire
\* and Grace are int64, Error is an int8.
BeheraPasswordPolicy(expire, grace, error, errorString, crit) ==
    [NilControl EXCEPT !.type = "BeheraPasswordPolicy", !.Expire = expire, !.Grace = grace,
                       !.Error = error, !.ErrorString = errorString, !.Critical = crit]

\* &ProxiedAuthorization{Critical, AuthzID}
ProxiedAuthorization(crit, authzID) ==
    [NilControl EXCEPT !.type = "ProxiedAuthorization", !.Critical = crit, !.AuthzID = authzID]

\* VChuPasswordMustChange(b)
VChuPasswordMustChange(b) == [NilControl EXCEPT !.type = "VChuPasswordMustChange", !.b = b]

\* VChuPasswordWarning(n), an int64
VChuPasswordWarning(n) == [NilControl EXCEPT !.type = "VChuPasswordWarning", !.n = n]

\* &PrePostRead{IsRequest, ControlOID, Critical, Attrs, DN, AttrVals}
PrePostRead(isRequest, oid, crit, attrs, dn, attrVals) ==
    [NilControl EXCEPT !.type = "PrePostRead", !.IsRequest = isRequest, !.ControlOID = oid,
                       !.Critical = crit, !.Attrs = attrs, !.DN = dn, !.AttrVals = attrVals]

NewPreReadRequest(c, attrs) == PrePostRead(TRUE, ControlOIDPreRead, c, attrs, <<>>, <<>>)
NewPreReadResult(c, dn, attrs) == PrePostRead(FALSE, ControlOIDPreRead, c, <<>>, dn, attrs)
NewPostReadRequest(c, attrs) == PrePostRead(TRUE, ControlOIDPostRead, c, attrs, <<>>, <<>>)
NewPostReadResult(c, dn, attrs) == PrePostRead(FALSE, ControlOIDPostRead, c, <<>>, dn, attrs)

\* AttributeSelection{Type, Values}
AttributeSelection(type, values) == [Type |-> type, Values |-> values]

\* NewUnknownControl as it would be if it dropped the criticality.
NewUnknownControlNoCriticality(oid, crit) ==
    [NilControl EXCEPT !.type = "UnknownControl", !.oid = oid]

\* NewUnknownControl(oid, crit)
NewUnknownControl(oid, crit) ==
    [NilControl EXCEPT !.type = "UnknownControl", !.oid = oid, !.criticality = crit]

\* NewBeheraPasswordPolicy as it would be if it returned the zero value of
\* the struct.
NewBeheraPasswordPolicyZero == BeheraPasswordPolicy(Int64(0), Int64(0), 0, "", FALSE)

\* NewBeheraPasswordPolicy()
NewBeheraPasswordPolicy == BeheraPasswordPolicy(Int64(-1), Int64(-1), -1, "", FALSE)

\* The OID method of each control type.
OID(c) ==
    CASE c.type = "ManageDsaIT" -> ControlOIDManageDsaIT
      [] c.type = "Paging" -> ControlOIDPaging
      [] c.type = "BeheraPasswordPolicy" -> ControlOIDBeheraPasswordPolicy
      [] c.type = "ProxiedAuthorization" -> ControlOIDProxiedAuthorization
      [] c.type = "VChuPasswordMustChange" -> ControlOIDVChuPasswordMustChange
      [] c.type = "VChuPasswordWarning" -> ControlOIDVChuPasswordWarning
      [] c.type = "PrePostRead" -> c.ControlOID
      [] OTHER -> c.oid

\* The Criticality method of each control type.
Criticality(c) ==
    CASE c.type \in {"ManageDsaIT"} -> c.b
      [] c.type \in {"VChuPasswordMustChange", "VChuPasswordWarning"} -> FALSE
      [] c.type \in {"Paging", "BeheraPasswordPolicy", "ProxiedAuthorization", "PrePostRead"}
            -> c.Critical
      [] OTHER -> c.criticality

\* BeheraPasswordPolicyErrorMap[code]; a missing key reads as "".
BeheraPasswordPolicyErrorMap(code) ==
    CASE code = 0 -> "Password expired"
      [] code = 1 -> "Account locked"
      [] code = 2 -> "Password must be changed"
      [] code = 3 -> "Policy prevents password modification"
      [] code = 4 -> "Policy requires old password in order to change password"
      [] code = 5 -> "Password fails quality checks"
      [] code = 6 -> "Password is too short for policy"
      [] code = 7 -> "Password has been changed too recently"
      [] code = 8 -> "New password is in list of old passwords"
      [] OTHER -> ""

(***************************************************************************)
(* The envelope encoder and the Encode method of each control type.         *)
(***************************************************************************)
\* The Name method; it only labels packets and results.
Name(c) ==
    CASE c.type = "ManageDsaIT" -> "Manage DSA IT"
      [] c.type = "Paging" -> "Paging"
      [] c.type = "BeheraPasswordPolicy" -> "Password Policy - Behera Draft"
      [] c.type = "ProxiedAuthorization" -> "Proxied Authorization"
      [] c.type = "VChuPasswordMustChange" -> "VChu Password Policy - Password Must Change"
      [] c.type = "VChuPasswordWarning" -> "VChu Password Policy - Password Expires"
      [] c.type = "PrePostRead" ->
            IF c.ControlOID = ControlOIDPreRead THEN "Pre Read - RFC 4527"
            ELSE "Post Read - RFC 4527"
      [] c.type = "UnknownControl" -> "unknown"
      [] OTHER -> "custom"

\* An empty universal SEQUENCE packet.
NewSequence == BerEncode(ClassUniversal, TypeConstructed, TagSequence, NilValue)

\* Encode as it would be if it wrote the criticality child always, and not
\* only when the control is critical.
EncodeCriticalityAlways(c, val) ==
    LET p1 == AppendChild(NewSequence,
                  NewString(ClassUniversal, TypePrimitive, TagOctetString, OID(c)))
        p2 == AppendChild(p1, NewBoolean(ClassUniversal, TypePrimitive, TagBoolean,
                                         Criticality(c)))
    IN  IF ~val.nil THEN AppendChild(p2, val) ELSE p2

\* Encode(c, val): the OID, the criticality only when true, the value only
\* when it is not nil.
Encode(c, val) ==
    LET p1 == AppendChild(NewSequence,
                  NewString(ClassUniversal, TypePrimitive, TagOctetString, OID(c)))
        p2 == IF Criticality(c)
              THEN AppendChild(p1, NewBoolean(ClassUniversal, TypePrimitive, TagBoolean,
                                              Criticality(c)))
              ELSE p1
    IN  IF ~val.nil THEN AppendChild(p2, val) ELSE p2

\* ManageDsaIT.Encode
ManageDsaITEncode(c) == Encode(c, NilPacket)

\* (*Paging).Encode: SEQUENCE { INTEGER size, OCTET STRING cookie }
PagingEncode(c) ==
    LET size == NewInteger(ClassUniversal, TypePrimitive, TagInteger, "int64",
                           Int64OfUint32(c.Size))
        cookie == [BerEncode(ClassUniversal, TypePrimitive, TagOctetString, NilValue) EXCEPT
                    !.value = BytesValue(c.Cookie), !.data = c.Cookie]
    IN  Encode(c, AppendChild(AppendChild(NewSequence, size), cookie))

\* (*BeheraPasswordPolicy).Encode as it would be if the grace branch of the
\* warning were preferred to the expire branch.
BeheraPasswordPolicyEncodeGraceFirst(c) ==
    IF Negative(c.Grace) /\ Negative(c.Expire) /\ c.Error < 0 THEN Encode(c, NilPacket)
    ELSE
    LET p == IF ~Negative(c.Grace)
             THEN NewInteger(ClassContext, TypePrimitive, 1, "int64", c.Grace)
             ELSE NewInteger(ClassContext, TypePrimitive, 0, "int64", c.Expire)
        wp == AppendChild(BerEncode(ClassContext, TypeConstructed, 0, NilValue), p)
        v1 == IF ~Negative(c.Grace) \/ ~Negative(c.Expire) THEN AppendChild(NewSequence, wp)
              ELSE NewSequence
        v2 == IF c.Error >= 0
              THEN AppendChild(v1, NewInteger(ClassContext, TypePrimitive, 1, "int8",
                                             Int64(c.Error)))
              ELSE v1
    IN  Encode(c, v2)

\* (*BeheraPasswordPolicy).Encode
BeheraPasswordPolicyEncode(c) ==
    IF Negative(c.Grace) /\ Negative(c.Expire) /\ c.Error < 0 THEN Encode(c, NilPacket)
    ELSE
    LET p == IF ~Negative(c.Expire)
             THEN NewInteger(ClassContext, TypePrimitive, 0, "int64", c.Expire)
             ELSE NewInteger(ClassContext, TypePrimitive, 1, "int64", c.Grace)
        wp == AppendChild(BerEncode(ClassContext, TypeConstructed, 0, NilValue), p)
        v1 == IF ~Negative(c.Grace) \/ ~Negative(c.Expire) THEN AppendChild(NewSequence, wp)
              ELSE NewSequence
        v2 == IF c.Error >= 0
              THEN AppendChild(v1, NewInteger(ClassContext, TypePrimitive, 1, "int8",
                                             Int64(c.Error)))
              ELSE v1
    IN  Encode(c, v2)

\* (*ProxiedAuthorization).Encode: the value is a constructed OCTET STRING
\* made by ber.Encode with the bytes of the AuthzID packet as its Value.
ProxiedAuthorizationEncode(c) ==
    LET id == NewString(ClassUniversal, TypePrimitive, TagOctetString, c.AuthzID)
        val == BerEncode(ClassUniversal, TypeConstructed, TagOctetString, BytesValue(Bytes(id)))
    IN  Encode(c, val)

\* VChuPasswordMustChange.Encode: SEQUENCE { OCTET STRING "0" }
VChuPasswordMustChangeEncode(c) ==
    Encode(c, AppendChild(NewSequence,
                  BerEncode(ClassUniversal, TypePrimitive, TagOctetString, StringValue(<<48>>))))

\* VChuPasswordWarning.Encode: SEQUENCE { OCTET STRING decimal(n) }
VChuPasswordWarningEncode(c) ==
    Encode(c, AppendChild(NewSequence,
                  BerEncode(ClassUniversal, TypePrimitive, TagOctetString,
                            StringValue(FormatInt(c.n)))))

\* A SEQUENCE of the OCTET STRINGs of strs, in order.
RECURSIVE appendStrings(_, _)
appendStrings(p, strs) ==
    IF strs = <<>> THEN p
    ELSE appendStrings(
            AppendChild(p, NewString(ClassUniversal, TypePrimitive, TagOctetString, Head(strs))),
            Tail(strs))

\* The "Result Attributes" SEQUENCE of (*PrePostRead).Encode.
RECURSIVE appendAttrVals(_, _)
appendAttrVals(p, attrVals) ==
    IF attrVals = <<>> THEN p
    ELSE LET av == AppendChild(
                       AppendChild(NewSequence,
                           NewString(ClassUniversal, TypePrimitive, TagOctetString,
                                     Head(attrVals).Type)),
                       appendStrings(NewSequence, Head(attrVals).Values))
         IN  appendAttrVals(AppendChild(p, av), Tail(attrVals))

\* (*PrePostRead).Encode: a request is a SEQUENCE of attribute names, a
\* result a primitive OCTET STRING holding the entry.
PrePostReadEncode(c) ==
    IF c.IsRequest THEN Encode(c, appendStrings(NewSequence, c.Attrs))
    ELSE
    LET entry == AppendChild(
                    AppendChild(NewSequence,
                        NewString(ClassUniversal, TypePrimitive, TagOctetString, c.DN)),
                    appendAttrVals(NewSequence, c.AttrVals))
        val == AppendChild(
                    BerEncode(ClassUniversal, TypePrimitive, TagOctetString, NilValue), entry)
    IN  Encode(c, val)

\* c.Encode() through the Control interface; an UnknownControl encodes to nil.
ControlEncode(c) ==
    CASE c.type = "ManageDsaIT" -> ManageDsaITEncode(c)
      [] c.type = "Paging" -> PagingEncode(c)
      [] c.type = "BeheraPasswordPolicy" -> BeheraPasswordPolicyEncode(c)
      [] c.type = "ProxiedAuthorization" -> ProxiedAuthorizationEncode(c)
      [] c.type = "VChuPasswordMustChange" -> VChuPasswordMustChangeEncode(c)
      [] c.type = "VChuPasswordWarning" -> VChuPasswordWarningEncode(c)
      [] c.type = "PrePostRead" -> PrePostReadEncode(c)
      [] OTHER -> NilPacket

(***************************************************************************)
(* Decoders.  A call ends in one of three ways: it returns (ctrl, err),     *)
(* err = "" standing for a nil error, or it panics (a run-time fault: a nil *)
(* dereference, an index out of range, a failed type assertion).            *)
(***************************************************************************)
ErrMissingControlValue == "missing control value"
ErrInvalidControlData == "invalid control data"
ErrInvalidControlValue == "invalid control value"
ErrMissingControlDecoder == "missing control decoder"

Return(c, e) == [ctrl |-> c, err |-> e, panic |-> FALSE]
Panic == [ctrl |-> NilControl, err |-> "", panic |-> TRUE]

\* decodeManageDsaIT
decodeManageDsaIT(oid, c, val) == Return(ManageDsaIT(c), "")

\* decodePaging as it would be if it left the cookie out.
decodePagingNoCookie(oid, c, val) ==
    IF val.nil THEN Panic
    ELSE IF Len(val.children) # 2 THEN Return(NilControl, ErrInvalidControlValue)
    ELSE IF val.children[1].value.kind # "int64" THEN Return(NilControl, ErrInvalidControlValue)
    ELSE Return(Paging(c, Uint32(val.children[1].value.i), <<>>), "")

\* decodePaging as it would be if a first child that holds no integer were
\* read as the size 0 instead of being refused.
decodePagingAnyFirst(oid, c, val) ==
    IF val.nil THEN Panic
    ELSE IF Len(val.children) # 2 THEN Return(NilControl, ErrInvalidControlValue)
    ELSE IF val.children[1].value.kind # "int64"
        THEN Return(Paging(c, <<0, 0>>, val.children[2].data), "")
    ELSE Return(Paging(c, Uint32(val.children[1].value.i), val.children[2].data), "")

\* decodePaging
decodePaging(oid, c, val) ==
    IF val.nil THEN Panic
    ELSE IF Len(val.children) # 2 THEN Return(NilControl, ErrInvalidControlValue)
    ELSE IF val.children[1].value.kind # "int64" THEN Return(NilControl, ErrInvalidControlValue)
    ELSE Return(Paging(c, Uint32(val.children[1].value.i), val.children[2].data), "")

\* The loop of decodeBehera over the children of the value.
RECURSIVE decodeBeheraChildren(_, _)
decodeBeheraChildren(ctrl, children) ==
    IF children = <<>> THEN Return(ctrl, "")
    ELSE LET child == Head(children) IN
         IF child.tag = 0 THEN
            IF child.children = <<>> THEN Panic
            ELSE LET val == ParseInt64(child.children[1].data) IN
                 IF ~val.ok THEN Return(NilControl, "ParseInt64")
                 ELSE IF child.children[1].tag = 0
                      THEN decodeBeheraChildren([ctrl EXCEPT !.Expire = val.v], Tail(children))
                 ELSE IF child.children[1].tag = 1
                      THEN decodeBeheraChildren([ctrl EXCEPT !.Grace = val.v], Tail(children))
                 ELSE Return(NilControl, "invalid tag on warning packet child")
         ELSE IF child.tag = 1 THEN
            LET val == ParseInt64(child.data) IN
            IF ~val.ok THEN Return(NilControl, "ParseInt64")
            ELSE decodeBeheraChildren(
                    [ctrl EXCEPT !.Error = Int8(val.v),
                                 !.ErrorString = BeheraPasswordPolicyErrorMap(Int8(val.v))],
                    Tail(children))
         ELSE Return(NilControl, "invalid tag on child")

\* decodeBehera
decodeBehera(oid, criticality, pkt) ==
    LET ctrl == [NewBeheraPasswordPolicy EXCEPT !.Critical = criticality]
    IN  IF pkt.nil THEN Return(ctrl, "") ELSE decodeBeheraChildren(ctrl, pkt.children)

\* decodeProxiedAuthorization
decodeProxiedAuthorization(oid, criticality, pkt) ==
    IF pkt.nil THEN Panic
    ELSE Return(ProxiedAuthorization(criticality, DecodeString(pkt.data)), "")

\* decodeVChuPassword
decodeVChuPassword(oid, criticality, pkt) ==
    IF oid = ControlOIDVChuPasswordMustChange THEN Return(VChuPasswordMustChange(TRUE), "")
    ELSE IF oid = ControlOIDVChuPasswordWarning THEN
        IF pkt.nil THEN Panic
        ELSE IF pkt.children = <<>> THEN Panic
        ELSE LET expire == ParseInt(DecodeString(pkt.children[1].data)) IN
             IF ~expire.ok THEN Return(NilControl, "failed to parse value as int")
             ELSE Return(VChuPasswordWarning(expire.v), "")
    ELSE Return(NilControl, "invalid control passwd to decoder")

\* child.Value.(string) for every packet of ps: [ok, strs]; ok is FALSE when
\* an assertion fails.
RECURSIVE stringValues(_)
stringValues(ps) ==
    IF ps = <<>> THEN [ok |-> TRUE, strs |-> <<>>]
    ELSE LET rest == stringValues(Tail(ps)) IN
         IF Head(ps).value.kind # "string" THEN [ok |-> FALSE, strs |-> <<>>]
         ELSE [ok |-> rest.ok, strs |-> <<Head(ps).value.s>> \o rest.strs]

\* The loop of decodePrePostRead over the attribute selections of a result:
\* [ok, sels]; ok is FALSE when an index or an assertion faults.
RECURSIVE attributeSelections(_)
attributeSelections(ps) ==
    IF ps = <<>> THEN [ok |-> TRUE, sels |-> <<>>]
    ELSE LET child == Head(ps)
             rest == attributeSelections(Tail(ps))
         IN  IF Len(child.children) < 2 THEN [ok |-> FALSE, sels |-> <<>>]
             ELSE IF child.children[1].value.kind # "string" THEN [ok |-> FALSE, sels |-> <<>>]
             ELSE LET vals == stringValues(child.children[2].children) IN
                  IF ~vals.ok THEN [ok |-> FALSE, sels |-> <<>>]
                  ELSE [ok |-> rest.ok,
                        sels |-> <<AttributeSelection(child.children[1].value.s, vals.strs)>>
                                 \o rest.sels]

\* The OCTET STRING branch of decodePrePostRead behind the DecodePacketErr
\* call: entry is the packet and the error it returned.
decodeEntry(oid, c, entry) ==
    LET result(sels) ==
            IF ~sels.ok THEN Panic
            ELSE Return(PrePostRead(FALSE, oid, c, <<>>, entry.pkt.children[1].value.s,
                                    sels.sels), "")
    IN  IF ~entry.ok THEN Return(NilControl, "failed to decode control value")
        ELSE IF Len(entry.pkt.children) < 2 THEN Panic
        ELSE IF entry.pkt.children[1].value.kind # "string" THEN Panic
        ELSE result(attributeSelections(entry.pkt.children[2].children))

\* decodePrePostRead as it would be if every value that is no SEQUENCE were
\* read as a result.
decodePrePostReadAnyTag(oid, c, pkt) ==
    IF oid \notin {ControlOIDPreRead, ControlOIDPostRead}
        THEN Return(NilControl, "invalid OID passed to decoder")
    ELSE IF pkt.nil THEN Panic
    ELSE IF pkt.tag = TagSequence THEN
        LET attrs == stringValues(pkt.children) IN
        IF ~attrs.ok THEN Panic
        ELSE Return(PrePostRead(TRUE, oid, c, attrs.strs, <<>>, <<>>), "")
    ELSE decodeEntry(oid, c, DecodePacketErr(pkt.data))

\* decodePrePostRead
decodePrePostRead(oid, c, pkt) ==
    IF oid \notin {ControlOIDPreRead, ControlOIDPostRead}
        THEN Return(NilControl, "invalid OID passed to decoder")
    ELSE IF pkt.nil THEN Panic
    ELSE IF pkt.tag = TagSequence THEN
        LET attrs == stringValues(pkt.children) IN
        IF ~attrs.ok THEN Panic
        ELSE Return(PrePostRead(TRUE, oid, c, attrs.strs, <<>>, <<>>), "")
    ELSE IF pkt.tag = TagOctetString THEN decodeEntry(oid, c, DecodePacketErr(pkt.data))
    ELSE Return(NilControl, "invalid tag on control value")

(***************************************************************************)
(* Decoders a caller may register besides the built-in ones.  A Decoder is  *)
(* any func(oid, criticality, value) (Control, error); these five cover the *)
(* ways such a function can end.                                            *)
(***************************************************************************)
\* "1.1", an OID with no built-in decoder.
CustomOID == <<49, 46, 49>>
\* "9.9", an OID nobody registers.
UnregisteredOID == <<57, 46, 57>>

\* The control a registered decoder of the caller builds.
CustomControl(oid, crit) ==
    [NilControl EXCEPT !.type = "Custom", !.oid = oid, !.criticality = crit]

\* Returns a control and no error.
customOk(oid, criticality, value) == Return(CustomControl(oid, criticality), "")
\* Returns an error and no control.
customErr(oid, criticality, value) == Return(NilControl, "custom decoder error")
\* Reads value.Children[0] unchecked: faults on an absent value or one without children.
customFault(oid, criticality, value) ==
    IF value.nil THEN Panic
    ELSE IF value.children = <<>> THEN Panic
    ELSE Return(CustomControl(oid, criticality), "")
\* Returns neither a control nor an error.
customNil(oid, criticality, value) == Return(NilControl, "")
\* Returns a control together with an error.
customBoth(oid, criticality, value) ==
    Return(CustomControl(oid, criticality), "custom decoder error")

\* Calls one function of this package, then returns a control and no error;
\* the call it makes is a step of its own of the goroutine.
customReentrant(oid, criticality, value) == Return(CustomControl(oid, criticality), "")

\* A nil Decoder.
NilDecoder == "nil"
BuiltinDecoders ==
    {"decodeManageDsaIT", "decodePaging", "decodeBehera", "decodeProxiedAuthorization",
     "decodeVChuPassword", "decodePrePostRead"}
CustomDecoders == {"customOk", "customErr", "customFault", "customNil", "customBoth"}

\* decode(oid, criticality, value) for the function value decode.
CallDecoder(decode, oid, criticality, value) ==
    CASE decode = "decodeManageDsaIT" -> decodeManageDsaIT(oid, criticality, value)
      [] decode = "decodePaging" -> decodePaging(oid, criticality, value)
      [] decode = "decodeBehera" -> decodeBehera(oid, criticality, value)
      [] decode = "decodeProxiedAuthorization" ->
            decodeProxiedAuthorization(oid, criticality, value)
      [] decode = "decodeVChuPassword" -> decodeVChuPassword(oid, criticality, value)
      [] decode = "decodePrePostRead" -> decodePrePostRead(oid, criticality, value)
      [] decode = "customOk" -> customOk(oid, criticality, value)
      [] decode = "customErr" -> customErr(oid, criticality, value)
      [] decode = "customFault" -> customFault(oid, criticality, value)
      [] decode = "customNil" -> customNil(oid, criticality, value)
      [] decode = "customBoth" -> customBoth(oid, criticality, value)
      [] decode = "customReentrant" -> customReentrant(oid, criticality, value)
      [] OTHER -> Panic

(***************************************************************************)
(* The registry: the Decoders map of registeredControls.                   *)
(***************************************************************************)
\* The map literal as it would be with the Post-Read entry left out.
InitialDecodersNoPostRead ==
    (ControlOIDManageDsaIT :> "decodeManageDsaIT")
    @@ (ControlOIDPaging :> "decodePaging")
    @@ (ControlOIDBeheraPasswordPolicy :> "decodeBehera")
    @@ (ControlOIDProxiedAuthorization :> "decodeProxiedAuthorization")
    @@ (ControlOIDVChuPasswordMustChange :> "decodeVChuPassword")
    @@ (ControlOIDVChuPasswordWarning :> "decodeVChuPassword")
    @@ (ControlOIDPreRead :> "decodePrePostRead")

\* The map literal registeredControls starts with.
InitialDecoders ==
    (ControlOIDManageDsaIT :> "decodeManageDsaIT")
    @@ (ControlOIDPaging :> "decodePaging")
    @@ (ControlOIDBeheraPasswordPolicy :> "decodeBehera")
    @@ (ControlOIDProxiedAuthorization :> "decodeProxiedAuthorization")
    @@ (ControlOIDVChuPasswordMustChange :> "decodeVChuPassword")
    @@ (ControlOIDVChuPasswordWarning :> "decodeVChuPassword")
    @@ (ControlOIDPreRead :> "decodePrePostRead")
    @@ (ControlOIDPostRead :> "decodePrePostRead")

\* The map store as it would be if it replaced the whole map by the new entry.
mapStoreAlone(m, oid, decoder) == [o \in {oid} |-> decoder]

\* registeredControls.Decoders[oid] = decoder
mapStore(m, oid, decoder) ==
    [o \in DOMAIN m \cup {oid} |-> IF o = oid THEN decoder ELSE m[o]]

\* UnregisterControl's delete as it would be if it removed nothing.
mapDeleteNothing(m, oid) == m

\* if _, ok := Decoders[oid]; ok { delete(Decoders, oid) }
mapDelete(m, oid) ==
    IF oid \in DOMAIN m THEN [o \in DOMAIN m \ {oid} |-> m[o]] ELSE m

\* dec := Decoders[oid]; a missing key reads as the nil Decoder.
mapLookup(m, oid) == IF oid \in DOMAIN m THEN m[oid] ELSE NilDecoder

(***************************************************************************)
(* Decode.                                                                  *)
(***************************************************************************)
\* The checks as they would be if they let a fourth child through.
checkEnvelopeFourChildren(pkt) ==
    IF pkt.nil THEN [ret |-> TRUE, out |-> Panic]
    ELSE IF pkt.tag # TagSequence
        THEN [ret |-> TRUE, out |-> Return(NilControl, ErrInvalidControlData)]
    ELSE IF Len(pkt.children) = 0 \/ Len(pkt.children) > 4
        THEN [ret |-> TRUE, out |-> Return(NilControl, ErrInvalidControlData)]
    ELSE [ret |-> FALSE, out |-> Return(NilControl, "")]

\* The checks Decode makes before it installs the deferred recover: the tag
\* and the number of children.  [ret, out]: ret says that Decode returns
\* here.  pkt.Tag of a nil packet faults, and nothing recovers it yet.
checkEnvelope(pkt) ==
    IF pkt.nil THEN [ret |-> TRUE, out |-> Panic]
    ELSE IF pkt.tag # TagSequence
        THEN [ret |-> TRUE, out |-> Return(NilControl, ErrInvalidControlData)]
    ELSE IF Len(pkt.children) = 0 \/ Len(pkt.children) > 3
        THEN [ret |-> TRUE, out |-> Return(NilControl, ErrInvalidControlData)]
    ELSE [ret |-> FALSE, out |-> Return(NilControl, "")]

\* The envelope fields as they would be read if the second of two children
\* were taken as the value whatever it holds.
parseEnvelopeValueFirst(pkt) ==
    LET n == Len(pkt.children)
        stop(o) == [ret |-> TRUE, out |-> o, oid |-> <<>>, criticality |-> FALSE,
                    value |-> NilPacket]
        go(crit, val) == [ret |-> FALSE, out |-> Return(NilControl, ""),
                          oid |-> pkt.children[1].value.s, criticality |-> crit, value |-> val]
    IN  IF pkt.children[1].value.kind # "string"
            THEN stop(Return(NilControl, ErrInvalidControlData))
        ELSE IF n = 1 THEN go(FALSE, NilPacket)
        ELSE IF n = 2 THEN go(FALSE, pkt.children[2])
        ELSE IF pkt.children[2].value.kind # "bool" THEN stop(Panic)
        ELSE go(pkt.children[2].value.i = Int64(1), pkt.children[3])

\* The envelope fields as they would be read if the criticality of a
\* three-child envelope were asserted with a check, as it is for two children.
parseEnvelopeCheckedBool(pkt) ==
    LET n == Len(pkt.children)
        stop(o) == [ret |-> TRUE, out |-> o, oid |-> <<>>, criticality |-> FALSE,
                    value |-> NilPacket]
        go(crit, val) == [ret |-> FALSE, out |-> Return(NilControl, ""),
                          oid |-> pkt.children[1].value.s, criticality |-> crit, value |-> val]
    IN  IF pkt.children[1].value.kind # "string"
            THEN stop(Return(NilControl, ErrInvalidControlData))
        ELSE IF n = 1 THEN go(FALSE, NilPacket)
        ELSE IF n = 2 THEN
            IF pkt.children[2].value.kind = "bool"
            THEN go(pkt.children[2].value.i = Int64(1), NilPacket)
            ELSE go(FALSE, pkt.children[2])
        ELSE IF pkt.children[2].value.kind # "bool" THEN go(FALSE, pkt.children[3])
        ELSE go(pkt.children[2].value.i = Int64(1), pkt.children[3])

\* The envelope fields of a packet that passed checkEnvelope:
\* [ret, out, oid, criticality, value]; ret says that Decode ends here, by
\* returning out or by the fault out.
parseEnvelope(pkt) ==
    LET n == Len(pkt.children)
        stop(o) == [ret |-> TRUE, out |-> o, oid |-> <<>>, criticality |-> FALSE,
                    value |-> NilPacket]
        go(crit, val) == [ret |-> FALSE, out |-> Return(NilControl, ""),
                          oid |-> pkt.children[1].value.s, criticality |-> crit, value |-> val]
    IN  IF pkt.children[1].value.kind # "string"
            THEN stop(Return(NilControl, ErrInvalidControlData))
        ELSE IF n = 1 THEN go(FALSE, NilPacket)
        ELSE IF n = 2 THEN
            IF pkt.children[2].value.kind = "bool"
            THEN go(pkt.children[2].value.i = Int64(1), NilPacket)
            ELSE go(FALSE, pkt.children[2])
        ELSE IF pkt.children[2].value.kind # "bool" THEN stop(Panic)
        ELSE go(pkt.children[2].value.i = Int64(1), pkt.children[3])

\* The end of Decode as it would be if it returned whatever the decoder
\* returned, without dropping the control on an error and without calling
\* ctrl.Name().
checkDecodedAsIs(r) == r

\* From the decoder GetDecoder returned to the return of Decode: no decoder
\* gives an UnknownControl; a decoder's error is returned without its
\* control; ctrl.Name() on a nil control faults.
checkDecoded(r) ==
    IF r.panic THEN Panic
    ELSE IF r.err # "" THEN Return(NilControl, r.err)
    ELSE IF r.ctrl.type = "nil" THEN Panic
    ELSE Return(r.ctrl, "")

dispatch(decode, oid, criticality, value) ==
    IF decode = NilDecoder THEN Return(NewUnknownControl(oid, criticality), "")
    ELSE checkDecoded(CallDecoder(decode, oid, criticality, value))

\* Decode as it would be without the deferred recover.
recoverNothing(out) == out

\* The deferred function of Decode: a recovered fault becomes an error and
\* no control.
recoverDeferred(out) ==
    IF out.panic THEN Return(NilControl, "panic caught") ELSE out

\* Decode(pkt), with decoders the registry map at the lookup:
\* [out, lookups, invoked, criticality, value], the outcome, the number of
\* GetDecoder calls made, the decoder that was called (NilDecoder when none
\* was) and the criticality and the value read from the envelope.
\* After GetDecoder: the decoder call under the deferred recover.
afterLookup(env, decode) ==
    [out |-> recoverDeferred(dispatch(decode, env.oid, env.criticality, env.value)),
     lookups |-> 1, invoked |-> decode, criticality |-> env.criticality,
     value |-> env.value]

\* After the envelope fields were read, under the deferred recover.
afterParse(env, decoders) ==
    IF env.ret
    THEN [out |-> recoverDeferred(env.out), lookups |-> 0, invoked |-> NilDecoder,
          criticality |-> FALSE, value |-> NilPacket]
    ELSE afterLookup(env, mapLookup(decoders, env.oid))

\* After the tag and child-count checks.
afterCheck(chk, pkt, decoders) ==
    IF chk.ret THEN [out |-> chk.out, lookups |-> 0, invoked |-> NilDecoder,
                     criticality |-> FALSE, value |-> NilPacket]
    ELSE afterParse(parseEnvelope(pkt), decoders)

DecodeTrace(pkt, decoders) == afterCheck(checkEnvelope(pkt), pkt, decoders)

Decode(pkt, decoders) == DecodeTrace(pkt, decoders).out

(***************************************************************************)
(* Inputs.                                                                  *)
(***************************************************************************)
\* The longest attribute list of a Pre/Post-Read control.
MaxAttrs == 2
\* The largest number of children of an envelope handed to Decode.
MaxChildren == 4

\* "cn", "sn", "mail", "uid=x", "a@b", "abc", "7"; "uid=someone,dc=example,dc=org"
StrCn == <<99, 110>>
StrSn == <<115, 110>>
StrMail == <<109, 97, 105, 108>>
StrUidX == <<117, 105, 100, 61, 120>>
StrAB == <<97, 64, 98>>
StrAbc == <<97, 98, 99>>
StrSeven == <<55>>
\* "9223372036854775808": a decimal number one beyond the largest int64.
StrTooBig == <<57, 50, 50, 51, 51, 55, 50, 48, 51, 54, 56, 53, 52, 55, 55, 53, 56, 48, 56>>
StrUidSomeone ==
    <<117, 105, 100, 61, 115, 111, 109, 101, 111, 110, 101, 44, 100, 99, 61,
      101, 120, 97, 109, 112, 108, 101, 44, 100, 99, 61, 111, 114, 103>>

AttrNames == <<StrCn, StrSn, StrMail, StrUidX>>
AttrLists == {SubSeq(AttrNames, 1, k) : k \in 0..MaxAttrs}
AttrValLists ==
    {<<>>, <<AttributeSelection(StrMail, <<StrAB>>)>>,
     <<AttributeSelection(StrMail, <<StrAB, StrCn>>), AttributeSelection(StrCn, <<>>)>>}

\* int64 values of more than four bytes: 4294967298 (2^32 + 2),
\* 9223372036854775807 (the largest) and -9223372036854775808 (the least).
Grace4294967298 == <<0, 0, 0, 1, 0, 0, 0, 2>>
MaxInt64 == <<127, 255, 255, 255, 255, 255, 255, 255>>
MinInt64 == <<128, 0, 0, 0, 0, 0, 0, 0>>

\* The controls the tests hand to runControlTest.
TestControls ==
    {ManageDsaIT(TRUE), ManageDsaIT(FALSE),
     Paging(FALSE, <<0, 0>>, <<>>), Paging(FALSE, <<0, 100>>, <<>>),
     BeheraPasswordPolicy(Int64(-1), Int64(-1), -1, "", FALSE),
     BeheraPasswordPolicy(Int64(127), Int64(-1), -1, "", FALSE),
     BeheraPasswordPolicy(Int64(-1), Int64(127), -1, "", FALSE),
     BeheraPasswordPolicy(Int64(-1), Grace4294967298, -1, "", FALSE),
     BeheraPasswordPolicy(Int64(-1), Int64(-1), 4, "", FALSE),
     ProxiedAuthorization(TRUE, StrUidSomeone),
     VChuPasswordMustChange(TRUE), VChuPasswordWarning(Int64(123345))}

\* The controls the round trip is run on: those of the tests, and of every
\* built-in type controls built the way its constructor or its decoder
\* builds them (ErrorString is the table entry of Error).
SampleControls ==
    TestControls
    \cup {ManageDsaIT(b) : b \in BOOLEAN}
    \cup {Paging(c, size, cookie) :
            c \in BOOLEAN, size \in {<<0, 0>>, <<0, 100>>, <<1, 0>>},
            cookie \in {<<>>, <<1, 255>>}}
    \cup {BeheraPasswordPolicy(Int64(e), Int64(g), r, BeheraPasswordPolicyErrorMap(r), c) :
            e \in {-1, 0, 127, 70000}, g \in {-1, 127, 999}, r \in {-1, 0, 4, 8, 100},
            c \in BOOLEAN}
    \cup {BeheraPasswordPolicy(e, g, -1, "", FALSE) :
            e \in {Grace4294967298, MaxInt64}, g \in {Int64(-1), Grace4294967298}}
    \cup {ProxiedAuthorization(c, id) : c \in BOOLEAN, id \in {<<>>, StrUidX}}
    \cup {VChuPasswordMustChange(b) : b \in BOOLEAN}
    \cup {VChuPasswordWarning(Int64(n)) : n \in {0, 123345, -7, 2147483647, -2147483647}}
    \cup {VChuPasswordWarning(n) : n \in {Grace4294967298, MaxInt64, MinInt64}}
    \cup {NewPreReadRequest(c, a) : c \in BOOLEAN, a \in AttrLists}
    \cup {NewPostReadRequest(c, a) : c \in BOOLEAN, a \in AttrLists}
    \cup {NewPreReadResult(c, StrUidX, a) : c \in BOOLEAN, a \in AttrValLists}
    \cup {NewPostReadResult(c, <<>>, a) : c \in BOOLEAN, a \in AttrValLists}

\* Packets met as the second or third child of an envelope.
BoolPackets == {NewBoolean(ClassUniversal, TypePrimitive, TagBoolean, b) : b \in BOOLEAN}
OctetAbc == NewString(ClassUniversal, TypePrimitive, TagOctetString, StrAbc)
OctetEmpty == NewString(ClassUniversal, TypePrimitive, TagOctetString, <<>>)
Int64Packet(n) == NewInteger(ClassUniversal, TypePrimitive, TagInteger, "int64", Int64(n))

\* The packet of the given tag with the given children.
RECURSIVE withChildren(_, _)
withChildren(p, cs) == IF cs = <<>> THEN p ELSE withChildren(AppendChild(p, Head(cs)), Tail(cs))

\* The value sub-tree of the envelope an Encode method returned: its last child.
valueOf(p) == p.children[Len(p.children)]

\* A Behera value that holds the error field alone, with the integer v in
\* it, and the integers met there: codes of the table, codes beyond it, and
\* integers no int8 holds.
BeheraErrorValue(v) ==
    withChildren(NewSequence,
                 <<NewInteger(ClassContext, TypePrimitive, 1, "int64", Int64(v))>>)
ErrorCodes == {4, 8, 9, 128, 260, 300, -1, -129}

\* Value sub-trees: SEQUENCEs of 0 to 3 children with an INTEGER or a string
\* in front (the cookie after it empty or not, the integer negative or not),
\* strings that are decimal numbers and strings that are not, the value of a
\* Pre-Read result, a result whose entry has no attribute list, and values of
\* other tags; and the Behera values above.  More results carry an entry
\* given by its bytes: the entry of a Pre-Read result (DN "uid=x", the
\* attribute "mail" with the value "a@b"), one with the DN alone, entries
\* whose DN is an IA5String, a UTF8String that is not UTF-8 and a
\* GeneralizedTime, and entries with a REAL behind the attribute list: the
\* number 1 * 2^0, and 1 * 2^-2147483649, which is +0 as a float64 and so
\* no content a REAL may have.
EntryResult ==
    <<48, 24, 4, 5, 117, 105, 100, 61, 120, 48, 15, 48, 13, 4, 4, 109, 97, 105, 108,
      48, 5, 4, 3, 97, 64, 98>>
EntryDNAlone == <<48, 7, 4, 5, 117, 105, 100, 61, 120>>
EntryIA5DN == <<48, 5, 22, 1, 97, 48, 0>>
EntryBadUTF8 == <<48, 5, 12, 1, 255, 48, 0>>
EntryTimeDN == <<48, 15, 24, 11, 50, 48, 48, 54, 48, 49, 48, 50, 49, 53, 90, 48, 0>>
EntryReal == <<48, 14, 4, 5, 117, 105, 100, 61, 120, 48, 0, 9, 3, 128, 0, 1>>
EntryRealZero ==
    <<48, 22, 4, 5, 117, 105, 100, 61, 120, 48, 0,
      9, 11, 131, 8, 255, 255, 255, 255, 127, 255, 255, 255, 1>>
ValuePackets ==
    {NewSequence, OctetAbc,
     withChildren(NewSequence,
        <<NewString(ClassUniversal, TypePrimitive, TagOctetString, StrSeven)>>),
     withChildren(NewSequence,
        <<NewString(ClassUniversal, TypePrimitive, TagOctetString, StrTooBig)>>),
     withChildren(NewSequence, <<OctetEmpty>>),
     withChildren(NewSequence, <<Int64Packet(100)>>),
     withChildren(NewSequence, <<Int64Packet(100), OctetAbc>>),
     withChildren(NewSequence, <<Int64Packet(-1), OctetEmpty>>),
     withChildren(NewSequence, <<Int64Packet(70000), OctetAbc, OctetAbc>>),
     withChildren(NewSequence, <<OctetAbc, OctetAbc>>),
     withChildren(NewSequence,
        <<NewString(ClassUniversal, TypePrimitive, TagOctetString, StrCn),
          NewString(ClassUniversal, TypePrimitive, TagOctetString, StrSn)>>),
     valueOf(PrePostReadEncode(NewPreReadResult(FALSE, StrUidX,
        <<AttributeSelection(StrMail, <<StrAB>>)>>))),
     withChildren(BerEncode(ClassUniversal, TypePrimitive, TagOctetString, NilValue),
        <<withChildren(NewSequence,
            <<NewString(ClassUniversal, TypePrimitive, TagOctetString, StrUidX)>>)>>),
     Int64Packet(5),
     NewString(ClassUniversal, TypePrimitive, TagUTF8String, StrAbc)}
    \cup {NewString(ClassUniversal, TypePrimitive, TagOctetString, e) :
            e \in {EntryIA5DN, EntryBadUTF8, EntryTimeDN, EntryReal, EntryRealZero}}
    \cup {BeheraErrorValue(v) : v \in ErrorCodes}

\* First children: the OID string of an envelope, or an INTEGER where the
\* OID should be.
SampleOIDs ==
    {ControlOIDManageDsaIT, ControlOIDPaging, ControlOIDBeheraPasswordPolicy,
     ControlOIDProxiedAuthorization, ControlOIDVChuPasswordWarning, ControlOIDPreRead,
     ControlOIDPostRead, CustomOID, UnregisteredOID}
FirstChildren ==
    {NewString(ClassUniversal, TypePrimitive, TagOctetString, o) : o \in SampleOIDs}
    \cup {Int64Packet(5)}

\* k copies of the packet x.
Repeat(x, k) == [j \in 1..k |-> x]

\* The packets handed to Decode: SEQUENCEs of 0 to MaxChildren children, a
\* packet that is no SEQUENCE, and a nil packet.
SampleEnvelopes ==
    {NewSequence, NilPacket}
    \cup {withChildren(BerEncode(ClassUniversal, TypeConstructed, TagOctetString, NilValue),
                       <<f>>) : f \in FirstChildren}
    \cup {withChildren(NewSequence, <<f>>) : f \in FirstChildren}
    \cup {withChildren(NewSequence, <<f, x>>) :
            f \in FirstChildren, x \in BoolPackets \cup ValuePackets}
    \cup {withChildren(NewSequence, <<f, x, v>>) :
            f \in FirstChildren, x \in BoolPackets \cup {OctetAbc}, v \in ValuePackets}
    \cup {withChildren(NewSequence, <<f, x>> \o Repeat(OctetAbc, k)) :
            f \in FirstChildren, x \in BoolPackets, k \in 2..(MaxChildren - 2)}

\* Registries a sequence of RegisterControl and UnregisterControl calls
\* leaves behind.
SampleRegistries ==
    {InitialDecoders, mapDelete(InitialDecoders, ControlOIDPaging),
     mapStore(InitialDecoders, ControlOIDPaging, "customFault")}
    \cup {mapStore(InitialDecoders, CustomOID, d) : d \in CustomDecoders}

(***************************************************************************)
(* State.                                                                   *)
(*                                                                          *)
(* The registry and the goroutines calling into it:                         *)
(*   Decoders   registeredControls.Decoders                                 *)
(*   mutex      the goroutine holding registeredControls' Mutex, 0 if free  *)
(*   pc         where each goroutine is; "ready" between two calls          *)
(*   call       the call a goroutine is in, or made last                    *)
(*   dec        the local dec of GetDecoder (decode of Decode)              *)
(*   ctrls      the local ctrls of GetControlOIDs                           *)
(*   ret        what the last completed call returned                       *)
(* History kept for the properties, never read by the program:              *)
(*   lastRegistered  per OID the decoder of the latest RegisterControl, or  *)
(*                   NilDecoder after an UnregisterControl                  *)
(*   seen       the key sets the registry held so far during a              *)
(*              GetControlOIDs call in flight                               *)
(*   stable     no registry write happened since the goroutine's Decode     *)
(*              call started                                                *)
(*   untouched  no RegisterControl or UnregisterControl call was made yet   *)
(* The locals of runControlTest:                                            *)
(*   step, originalControl, encodedPacket, encodedBytes, fromPacket,        *)
(*   wirePacket, fromBytes, and the bytes of fromPacket.Encode()            *)
(*   (packetBytes) and of fromBytes.Encode() (wireBytes)                    *)
(* A single Decode call on a given registry:                                *)
(*   envelope, trace                                                        *)
(***************************************************************************)
VARIABLES Decoders, mutex, pc, call, dec, ctrls, ret,
          lastRegistered, seen, stable, untouched,
          step, originalControl, encodedPacket, encodedBytes, fromPacket, packetBytes,
          wirePacket, fromBytes, wireBytes, envelope, trace

registryVars == <<Decoders, mutex, pc, call, dec, ctrls, ret,
                  lastRegistered, seen, stable, untouched>>
testVars == <<step, originalControl, encodedPacket, encodedBytes, fromPacket, packetBytes,
              wirePacket, fromBytes, wireBytes>>
decodeVars == <<envelope, trace>>
vars == <<registryVars, testVars, decodeVars>>

Goroutines == {1, 2}

\* The OIDs of the model: the keys of the map literal, an OID a caller
\* registers a decoder for, and one nobody registers.
AllOIDs ==
    {ControlOIDManageDsaIT, ControlOIDPaging, ControlOIDBeheraPasswordPolicy,
     ControlOIDProxiedAuthorization, ControlOIDVChuPasswordMustChange,
     ControlOIDVChuPasswordWarning, ControlOIDPreRead, ControlOIDPostRead,
     CustomOID, UnregisteredOID}
Range(seq) == {seq[k] : k \in 1..Len(seq)}

\* The arguments the goroutines call the registry with.
CallOIDs == {ControlOIDPaging, CustomOID}
CallDecoders == {NilDecoder, "customOk"}
CallEnvelopes ==
    {PagingEncode(Paging(TRUE, <<0, 100>>, <<>>)),
     withChildren(NewSequence,
                  <<NewString(ClassUniversal, TypePrimitive, TagOctetString, CustomOID)>>),
     NewSequence}

\* The Decode call a goroutine is in while the decoder that Decode called is
\* itself inside a call of this package; active is FALSE when there is none.
NoFrame == [active |-> FALSE, oid |-> <<>>, pkt |-> NilPacket]
NoCall ==
    [op |-> "none", oid |-> <<>>, decoder |-> NilDecoder, pkt |-> NilPacket,
     outer |-> NoFrame]
NoRet ==
    [err |-> "", dec |-> NilDecoder, oids |-> <<>>, out |-> Return(NilControl, ""),
     lookups |-> 0, invoked |-> NilDecoder]

\* The goroutines between sync.Mutex.Lock and Unlock.
CriticalPCs ==
    {"RegisterControl:store", "RegisterControl:unlock", "UnregisterControl:delete",
     "UnregisterControl:unlock", "GetDecoder:read", "GetDecoder:unlock",
     "GetControlOIDs:range", "GetControlOIDs:unlock"}

\* The registry holds the map m and no goroutine is in a call; fresh says
\* that m is the map literal and no call was made yet.
registryAt(m, fresh) ==
    /\ Decoders = m
    /\ mutex = 0
    /\ pc = [g \in Goroutines |-> "ready"]
    /\ call = [g \in Goroutines |-> NoCall]
    /\ dec = [g \in Goroutines |-> NilDecoder]
    /\ ctrls = [g \in Goroutines |-> <<>>]
    /\ ret = [g \in Goroutines |-> NoRet]
    /\ lastRegistered = [o \in AllOIDs |-> mapLookup(m, o)]
    /\ seen = [g \in Goroutines |-> {}]
    /\ stable = [g \in Goroutines |-> TRUE]
    /\ untouched = fresh

\* The package is loaded: registeredControls holds the map literal.
RegistryInit == registryAt(InitialDecoders, TRUE)

\* The registry after UnregisterControl calls for six of the built-in OIDs.
FewDecoders ==
    [o \in {ControlOIDManageDsaIT, ControlOIDPaging} |-> InitialDecoders[o]]

\* The registries the concurrent callers start on: the map literal, and the
\* two entries earlier UnregisterControl calls left of it.
StartRegistries == {InitialDecoders, FewDecoders}

\* The callers call GetControlOIDs while the registry holds at most this
\* many keys: a call on n keys may return any of the n! orders.
MaxRangeKeys == 3
fewKeys == Cardinality(DOMAIN Decoders) <= MaxRangeKeys

TestIdle ==
    /\ step = "off"
    /\ originalControl = NilControl
    /\ encodedPacket = NilPacket
    /\ encodedBytes = <<>>
    /\ fromPacket = Return(NilControl, "")
    /\ packetBytes = <<>>
    /\ wirePacket = [ok |-> FALSE, pkt |-> NilPacket]
    /\ fromBytes = Return(NilControl, "")
    /\ wireBytes = <<>>

NoTrace ==
    [out |-> Return(NilControl, ""), lookups |-> 0, invoked |-> NilDecoder,
     criticality |-> FALSE, value |-> NilPacket]
DecodeIdle == envelope = NilPacket /\ trace = [done |-> FALSE, t |-> NoTrace]

(***************************************************************************)
(* sync.Mutex                                                               *)
(***************************************************************************)
\* Lock as it would be if it did not wait for the holder.
LockNoWait(g) == mutex' = g

\* registeredControls.Lock(): waits until the mutex is free, then holds it.
Lock(g) == mutex = 0 /\ mutex' = g

\* Unlock as it would be if the call returned with the mutex held.
UnlockNothing(g) == UNCHANGED mutex

\* registeredControls.Unlock()
Unlock(g) == mutex' = 0

\* A registry write, as the history sees it: the Decode calls made so far
\* are no longer stable, and a GetControlOIDs in flight has seen one more
\* key set.
noteWrite(keys) ==
    /\ stable' = [h \in Goroutines |-> stable[h] /\ call[h].op # "Decode"]
    /\ seen' = [h \in Goroutines |->
                    IF pc[h] # "ready" /\ call[h].op = "GetControlOIDs"
                    THEN seen[h] \cup {keys} ELSE seen[h]]

\* A goroutine starts the call c.  A goroutine whose decoder is inside a
\* call goes on with the decoder when that call has returned.
enter(g, c, at) ==
    /\ pc[g] = "ready" /\ ~call[g].outer.active
    /\ pc' = [pc EXCEPT ![g] = at]
    /\ call' = [call EXCEPT ![g] = c]
    /\ ret' = [ret EXCEPT ![g] = NoRet]
    /\ dec' = [dec EXCEPT ![g] = NilDecoder]
    /\ ctrls' = [ctrls EXCEPT ![g] = <<>>]
    /\ stable' = [stable EXCEPT ![g] = TRUE]
    /\ seen' = [seen EXCEPT ![g] = IF c.op = "GetControlOIDs" THEN {DOMAIN Decoders} ELSE {}]

(***************************************************************************)
(* RegisterControl(oid, decoder)                                            *)
(***************************************************************************)
\* RegisterControl as it would be without the nil check.
RegisterControlEnterNoCheck(g, oid, decoder) ==
    /\ enter(g, [NoCall EXCEPT !.op = "RegisterControl", !.oid = oid, !.decoder = decoder],
             "RegisterControl:lock")
    /\ untouched' = FALSE
    /\ UNCHANGED <<testVars, decodeVars>>
    /\ UNCHANGED <<Decoders, mutex, lastRegistered>>

\* The call and its nil check: a nil decoder returns ErrMissingControlDecoder
\* before the lock is taken.
RegisterControlEnter(g, oid, decoder) ==
    /\ enter(g, [NoCall EXCEPT !.op = "RegisterControl", !.oid = oid, !.decoder = decoder],
             IF decoder = NilDecoder THEN "RegisterControl:return"
             ELSE "RegisterControl:lock")
    /\ untouched' = FALSE
    /\ UNCHANGED <<testVars, decodeVars>>
    /\ UNCHANGED <<Decoders, mutex, lastRegistered>>

RegisterControlReject(g) ==
    /\ pc[g] = "RegisterControl:return"
    /\ pc' = [pc EXCEPT ![g] = "ready"]
    /\ ret' = [ret EXCEPT ![g].err = ErrMissingControlDecoder]
    /\ UNCHANGED <<testVars, decodeVars>>
    /\ UNCHANGED <<Decoders, mutex, call, dec, ctrls, lastRegistered, seen, stable,
                   untouched>>

RegisterControlLock(g) ==
    /\ pc[g] = "RegisterControl:lock"
    /\ Lock(g)
    /\ pc' = [pc EXCEPT ![g] = "RegisterControl:store"]
    /\ UNCHANGED <<testVars, decodeVars>>
    /\ UNCHANGED <<Decoders, call, dec, ctrls, ret, lastRegistered, seen, stable,
                   untouched>>

RegisterControlStore(g) ==
    /\ pc[g] = "RegisterControl:store"
    /\ Decoders' = mapStore(Decoders, call[g].oid, call[g].decoder)
    /\ lastRegistered' = [lastRegistered EXCEPT ![call[g].oid] = call[g].decoder]
    /\ noteWrite(DOMAIN Decoders')
    /\ pc' = [pc EXCEPT ![g] = "RegisterControl:unlock"]
    /\ UNCHANGED <<testVars, decodeVars>>
    /\ UNCHANGED <<mutex, call, dec, ctrls, ret, untouched>>

RegisterControlUnlock(g) ==
    /\ pc[g] = "RegisterControl:unlock"
    /\ Unlock(g)
    /\ pc' = [pc EXCEPT ![g] = "ready"]
    /\ ret' = [ret EXCEPT ![g].err = ""]
    /\ UNCHANGED <<testVars, decodeVars>>
    /\ UNCHANGED <<Decoders, call, dec, ctrls, lastRegistered, seen, stable, untouched>>

(***************************************************************************)
(* UnregisterControl(oid)                                                   *)
(***************************************************************************)
UnregisterControlEnter(g, oid) ==
    /\ enter(g, [NoCall EXCEPT !.op = "UnregisterControl", !.oid = oid],
             "UnregisterControl:lock")
    /\ untouched' = FALSE
    /\ UNCHANGED <<testVars, decodeVars>>
    /\ UNCHANGED <<Decoders, mutex, lastRegistered>>

UnregisterControlLock(g) ==
    /\ pc[g] = "UnregisterControl:lock"
    /\ Lock(g)
    /\ pc' = [pc EXCEPT ![g] = "UnregisterControl:delete"]
    /\ UNCHANGED <<testVars, decodeVars>>
    /\ UNCHANGED <<Decoders, call, dec, ctrls, ret, lastRegistered, seen, stable,
                   untouched>>

UnregisterControlDelete(g) ==
    /\ pc[g] = "UnregisterControl:delete"
    /\ Decoders' = mapDelete(Decoders, call[g].oid)
    /\ lastRegistered' = [lastRegistered EXCEPT ![call[g].oid] = NilDecoder]
    /\ noteWrite(DOMAIN Decoders')
    /\ pc' = [pc EXCEPT ![g] = "UnregisterControl:unlock"]
    /\ UNCHANGED <<testVars, decodeVars>>
    /\ UNCHANGED <<mutex, call, dec, ctrls, ret, untouched>>

UnregisterControlUnlock(g) ==
    /\ pc[g] = "UnregisterControl:unlock"
    /\ Unlock(g)
    /\ pc' = [pc EXCEPT ![g] = "ready"]
    /\ UNCHANGED <<testVars, decodeVars>>
    /\ UNCHANGED <<Decoders, call, dec, ctrls, ret, lastRegistered, seen, stable,
                   untouched>>

(***************************************************************************)
(* GetDecoder(oid), called directly or from Decode                          *)
(***************************************************************************)
GetDecoderEnter(g, oid) ==
    /\ enter(g, [NoCall EXCEPT !.op = "GetDecoder", !.oid = oid], "GetDecoder:lock")
    /\ UNCHANGED <<testVars, decodeVars>>
    /\ UNCHANGED <<Decoders, mutex, lastRegistered, untouched>>

GetDecoderLock(g) ==
    /\ pc[g] = "GetDecoder:lock"
    /\ Lock(g)
    /\ pc' = [pc EXCEPT ![g] = "GetDecoder:read"]
    /\ UNCHANGED <<testVars, decodeVars>>
    /\ UNCHANGED <<Decoders, call, dec, ctrls, ret, lastRegistered, seen, stable,
                   untouched>>

\* The read of GetDecoder as it would be if it took the entry out of the map.
GetDecoderReadAndDelete(g) ==
    /\ pc[g] = "GetDecoder:read"
    /\ dec' = [dec EXCEPT ![g] = mapLookup(Decoders, call[g].oid)]
    /\ Decoders' = mapDelete(Decoders, call[g].oid)
    /\ pc' = [pc EXCEPT ![g] = "GetDecoder:unlock"]
    /\ UNCHANGED <<testVars, decodeVars>>
    /\ UNCHANGED <<mutex, call, ctrls, ret, lastRegistered, seen, stable, untouched>>

GetDecoderRead(g) ==
    /\ pc[g] = "GetDecoder:read"
    /\ dec' = [dec EXCEPT ![g] = mapLookup(Decoders, call[g].oid)]
    /\ pc' = [pc EXCEPT ![g] = "GetDecoder:unlock"]
    /\ UNCHANGED <<testVars, decodeVars>>
    /\ UNCHANGED <<Decoders, mutex, call, ctrls, ret, lastRegistered, seen, stable,
                   untouched>>

\* GetDecoder as it would be if Decode kept the lock for the decoder's run:
\* the deferred Unlock of a Decode call is left to the end of Decode.
GetDecoderUnlockHeld(g) ==
    /\ pc[g] = "GetDecoder:unlock"
    /\ IF call[g].op = "Decode"
       THEN /\ UnlockNothing(g)
            /\ pc' = [pc EXCEPT ![g] = "Decode:dispatch"]
            /\ ret' = [ret EXCEPT ![g].lookups = @ + 1]
       ELSE /\ Unlock(g)
            /\ pc' = [pc EXCEPT ![g] = "ready"]
            /\ ret' = [ret EXCEPT ![g].dec = dec[g]]
    /\ UNCHANGED <<testVars, decodeVars>>
    /\ UNCHANGED <<Decoders, call, dec, ctrls, lastRegistered, seen, stable, untouched>>

\* Unlock and return dec: to the caller of GetDecoder, or into Decode.
GetDecoderUnlock(g) ==
    /\ pc[g] = "GetDecoder:unlock"
    /\ Unlock(g)
    /\ IF call[g].op = "Decode"
       THEN /\ pc' = [pc EXCEPT ![g] = "Decode:dispatch"]
            /\ ret' = [ret EXCEPT ![g].lookups = @ + 1]
       ELSE /\ pc' = [pc EXCEPT ![g] = "ready"]
            /\ ret' = [ret EXCEPT ![g].dec = dec[g]]
    /\ UNCHANGED <<testVars, decodeVars>>
    /\ UNCHANGED <<Decoders, call, dec, ctrls, lastRegistered, seen, stable, untouched>>

(***************************************************************************)
(* GetControlOIDs()                                                         *)
(***************************************************************************)
GetControlOIDsEnter(g) ==
    /\ enter(g, [NoCall EXCEPT !.op = "GetControlOIDs"], "GetControlOIDs:lock")
    /\ UNCHANGED <<testVars, decodeVars>>
    /\ UNCHANGED <<Decoders, mutex, lastRegistered, untouched>>

GetControlOIDsLock(g) ==
    /\ pc[g] = "GetControlOIDs:lock"
    /\ Lock(g)
    /\ pc' = [pc EXCEPT ![g] = "GetControlOIDs:range"]
    /\ UNCHANGED <<testVars, decodeVars>>
    /\ UNCHANGED <<Decoders, call, dec, ctrls, ret, lastRegistered, seen, stable,
                   untouched>>

\* The keys the range loop has not visited yet.  Go leaves the order of a
\* map range open: the loop takes every key once, in any order.
keysAhead(g) == DOMAIN Decoders \ Range(ctrls[g])

\* One iteration of the range loop: append any key not visited yet; the
\* loop ends when no key is left.
GetControlOIDsRange(g) ==
    /\ pc[g] = "GetControlOIDs:range"
    /\ IF keysAhead(g) = {}
       THEN /\ pc' = [pc EXCEPT ![g] = "GetControlOIDs:unlock"]
            /\ UNCHANGED ctrls
       ELSE \E oid \in keysAhead(g) :
                /\ ctrls' = [ctrls EXCEPT ![g] = Append(@, oid)]
                /\ UNCHANGED pc
    /\ UNCHANGED <<testVars, decodeVars>>
    /\ UNCHANGED <<Decoders, mutex, call, dec, ret, lastRegistered, seen, stable, untouched>>

GetControlOIDsUnlock(g) ==
    /\ pc[g] = "GetControlOIDs:unlock"
    /\ Unlock(g)
    /\ pc' = [pc EXCEPT ![g] = "ready"]
    /\ ret' = [ret EXCEPT ![g].oids = ctrls[g]]
    /\ seen' = [seen EXCEPT ![g] = {}]
    /\ UNCHANGED <<testVars, decodeVars>>
    /\ UNCHANGED <<Decoders, call, dec, ctrls, lastRegistered, stable, untouched>>

(***************************************************************************)
(* Decode(pkt)                                                              *)
(***************************************************************************)
\* The call, up to the return on a malformed envelope or to GetDecoder(oid).
DecodeEnter(g, pkt) ==
    LET chk == checkEnvelope(pkt)
        env == parseEnvelope(pkt)
        c == [NoCall EXCEPT !.op = "Decode", !.pkt = pkt,
                            !.oid = IF chk.ret \/ env.ret THEN <<>> ELSE env.oid]
    IN  /\ enter(g, c, IF chk.ret \/ env.ret THEN "Decode:return" ELSE "GetDecoder:lock")
        /\ UNCHANGED <<testVars, decodeVars>>
        /\ UNCHANGED <<Decoders, mutex, lastRegistered, untouched>>

\* The return on a malformed envelope; a fault met after the defer statement
\* is recovered.
DecodeReject(g) ==
    LET chk == checkEnvelope(call[g].pkt)
    IN  /\ pc[g] = "Decode:return"
        /\ pc' = [pc EXCEPT ![g] = "ready"]
        /\ ret' = [ret EXCEPT ![g].out =
                      IF chk.ret THEN chk.out
                      ELSE recoverDeferred(parseEnvelope(call[g].pkt).out)]
        /\ UNCHANGED <<testVars, decodeVars>>
        /\ UNCHANGED <<Decoders, mutex, call, dec, ctrls, lastRegistered, seen, stable,
                       untouched>>

\* Decode as it would be if it looked the decoder up a second time, without
\* the lock, at the moment it calls it.
DecodeDispatchReread(g) ==
    LET env == parseEnvelope(call[g].pkt)
        now == mapLookup(Decoders, call[g].oid)
    IN  /\ pc[g] = "Decode:dispatch"
        /\ pc' = [pc EXCEPT ![g] = "ready"]
        /\ ret' = [ret EXCEPT
                      ![g].out = recoverDeferred(dispatch(now, env.oid, env.criticality,
                                                          env.value)),
                      ![g].invoked = now]
        /\ UNCHANGED <<testVars, decodeVars>>
        /\ UNCHANGED <<Decoders, mutex, call, dec, ctrls, lastRegistered, seen,
                       stable, untouched>>

\* The decoder call and the return of Decode.
DecodeDispatch(g) ==
    LET env == parseEnvelope(call[g].pkt)
    IN  /\ pc[g] = "Decode:dispatch"
        /\ pc' = [pc EXCEPT ![g] = "ready"]
        /\ ret' = [ret EXCEPT
                      ![g].out = recoverDeferred(dispatch(dec[g], env.oid, env.criticality,
                                                          env.value)),
                      ![g].invoked = dec[g]]
        /\ UNCHANGED <<testVars, decodeVars>>
        /\ UNCHANGED <<Decoders, mutex, call, dec, ctrls, lastRegistered, seen,
                       stable, untouched>>

(***************************************************************************)
(* A decoder that calls into this package.  Decode calls the decoder after  *)
(* GetDecoder has returned; the call the decoder makes runs in the          *)
(* goroutine of the Decode call, whose frame waits in call[g].outer until   *)
(* the decoder returns.                                                     *)
(***************************************************************************)
\* The decoder that goroutine g's Decode called starts the call c.
decoderCalls(g, c, at) ==
    /\ pc[g] = "Decode:dispatch" /\ dec[g] = "customReentrant"
    /\ ~call[g].outer.active
    /\ pc' = [pc EXCEPT ![g] = at]
    /\ call' = [call EXCEPT ![g] =
                  [c EXCEPT !.outer = [active |-> TRUE, oid |-> call[g].oid,
                                       pkt |-> call[g].pkt]]]
    /\ ret' = [ret EXCEPT ![g] = NoRet]
    /\ dec' = [dec EXCEPT ![g] = NilDecoder]
    /\ ctrls' = [ctrls EXCEPT ![g] = <<>>]
    /\ stable' = [stable EXCEPT ![g] = TRUE]
    /\ seen' = [seen EXCEPT ![g] = IF c.op = "GetControlOIDs" THEN {DOMAIN Decoders} ELSE {}]

DecoderRegisterControl(g, oid, decoder) ==
    /\ decoderCalls(g, [NoCall EXCEPT !.op = "RegisterControl", !.oid = oid,
                                      !.decoder = decoder],
                    IF decoder = NilDecoder THEN "RegisterControl:return"
                    ELSE "RegisterControl:lock")
    /\ untouched' = FALSE
    /\ UNCHANGED <<testVars, decodeVars>>
    /\ UNCHANGED <<Decoders, mutex, lastRegistered>>

DecoderUnregisterControl(g, oid) ==
    /\ decoderCalls(g, [NoCall EXCEPT !.op = "UnregisterControl", !.oid = oid],
                    "UnregisterControl:lock")
    /\ untouched' = FALSE
    /\ UNCHANGED <<testVars, decodeVars>>
    /\ UNCHANGED <<Decoders, mutex, lastRegistered>>

DecoderGetDecoder(g, oid) ==
    /\ decoderCalls(g, [NoCall EXCEPT !.op = "GetDecoder", !.oid = oid], "GetDecoder:lock")
    /\ UNCHANGED <<testVars, decodeVars>>
    /\ UNCHANGED <<Decoders, mutex, lastRegistered, untouched>>

DecoderGetControlOIDs(g) ==
    /\ decoderCalls(g, [NoCall EXCEPT !.op = "GetControlOIDs"], "GetControlOIDs:lock")
    /\ UNCHANGED <<testVars, decodeVars>>
    /\ UNCHANGED <<Decoders, mutex, lastRegistered, untouched>>

DecoderDecode(g, pkt) ==
    LET chk == checkEnvelope(pkt)
        env == parseEnvelope(pkt)
        c == [NoCall EXCEPT !.op = "Decode", !.pkt = pkt,
                            !.oid = IF chk.ret \/ env.ret THEN <<>> ELSE env.oid]
    IN  /\ decoderCalls(g, c, IF chk.ret \/ env.ret THEN "Decode:return"
                              ELSE "GetDecoder:lock")
        /\ UNCHANGED <<testVars, decodeVars>>
        /\ UNCHANGED <<Decoders, mutex, lastRegistered, untouched>>

\* The call the decoder made has returned; the decoder returns its control,
\* and Decode returns.
DecoderReturn(g) ==
    LET env == parseEnvelope(call[g].outer.pkt)
    IN  /\ pc[g] = "ready" /\ call[g].outer.active
        /\ call' = [call EXCEPT ![g] = [NoCall EXCEPT !.op = "Decode",
                                                       !.oid = call[g].outer.oid,
                                                       !.pkt = call[g].outer.pkt]]
        /\ dec' = [dec EXCEPT ![g] = "customReentrant"]
        /\ ret' = [ret EXCEPT ![g] =
                      [NoRet EXCEPT
                          !.out = recoverDeferred(dispatch("customReentrant", env.oid,
                                                           env.criticality, env.value)),
                          !.invoked = "customReentrant", !.lookups = 1]]
        /\ stable' = [stable EXCEPT ![g] = FALSE]
        /\ seen' = [seen EXCEPT ![g] = {}]
        /\ UNCHANGED <<testVars, decodeVars>>
        /\ UNCHANGED <<Decoders, mutex, pc, ctrls, lastRegistered, untouched>>

(***************************************************************************)
(* The registry under concurrent callers.                                   *)
(***************************************************************************)
Init ==
    /\ \E m \in StartRegistries : registryAt(m, m = InitialDecoders)
    /\ TestIdle /\ DecodeIdle

RegistryCalls(g) ==
    \/ \E oid \in CallOIDs, decoder \in CallDecoders : RegisterControlEnter(g, oid, decoder)
    \/ RegisterControlReject(g)
    \/ RegisterControlLock(g)
    \/ RegisterControlStore(g)
    \/ RegisterControlUnlock(g)
    \/ \E oid \in CallOIDs : UnregisterControlEnter(g, oid)
    \/ UnregisterControlLock(g)
    \/ UnregisterControlDelete(g)
    \/ UnregisterControlUnlock(g)
    \/ \E oid \in CallOIDs : GetDecoderEnter(g, oid)
    \/ GetDecoderLock(g)
    \/ GetDecoderRead(g)
    \/ GetDecoderUnlock(g)
    \/ fewKeys /\ GetControlOIDsEnter(g)
    \/ GetControlOIDsLock(g)
    \/ GetControlOIDsRange(g)
    \/ GetControlOIDsUnlock(g)

DecodeCalls(g) ==
    \/ \E pkt \in CallEnvelopes : DecodeEnter(g, pkt)
    \/ DecodeReject(g)
    \/ DecodeDispatch(g)

Next == \E g \in Goroutines : RegistryCalls(g) \/ DecodeCalls(g)

Spec == Init /\ [][Next]_vars

(***************************************************************************)
(* The registry as the package loads it, before any RegisterControl or      *)
(* UnregisterControl call: one caller makes GetDecoder and GetControlOIDs   *)
(* calls, and a GetControlOIDs call ranges over all the keys of the map     *)
(* literal.                                                                 *)
(***************************************************************************)
InitFresh == RegistryInit /\ TestIdle /\ DecodeIdle

FreshCalls(g) ==
    \/ \E oid \in AllOIDs : GetDecoderEnter(g, oid)
    \/ GetDecoderLock(g)
    \/ GetDecoderRead(g)
    \/ GetDecoderUnlock(g)
    \/ GetControlOIDsEnter(g)
    \/ GetControlOIDsLock(g)
    \/ GetControlOIDsRange(g)
    \/ GetControlOIDsUnlock(g)

NextFresh == FreshCalls(1)

SpecFresh == InitFresh /\ [][NextFresh]_vars

(***************************************************************************)
(* The registry calls alone, under the scheduling Go gives them: a          *)
(* goroutine that can take a step takes it, and a goroutine waiting in      *)
(* Lock gets the mutex when it is free again and again (sync.Mutex hands    *)
(* the lock to a starving waiter).  Whether a caller makes another call is  *)
(* left open.                                                               *)
(***************************************************************************)
NextRegistry == \E g \in Goroutines : RegistryCalls(g)

lockStep(g) ==
    \/ RegisterControlLock(g)
    \/ UnregisterControlLock(g)
    \/ GetDecoderLock(g)
    \/ GetControlOIDsLock(g)

runStep(g) ==
    \/ RegisterControlReject(g)
    \/ RegisterControlStore(g)
    \/ RegisterControlUnlock(g)
    \/ UnregisterControlDelete(g)
    \/ UnregisterControlUnlock(g)
    \/ GetDecoderRead(g)
    \/ GetDecoderUnlock(g)
    \/ GetControlOIDsRange(g)
    \/ GetControlOIDsUnlock(g)

Fairness ==
    \A g \in Goroutines :
        /\ WF_vars(runStep(g))
        /\ SF_vars(lockStep(g))

SpecFair == Init /\ [][NextRegistry]_vars /\ Fairness

(***************************************************************************)
(* Decode calls with a registered decoder that calls into this package,     *)
(* next to registry calls of other goroutines.  The scheduling is that of   *)
(* SpecFair for the steps of this package; how long a decoder takes, and    *)
(* whether it returns at all, is left open.                                 *)
(***************************************************************************)
\* The envelope the re-entrant decoder is registered for.
ReentrantEnvelope ==
    withChildren(NewSequence,
                 <<NewString(ClassUniversal, TypePrimitive, TagOctetString, CustomOID)>>)

InitReentrant ==
    /\ TestIdle /\ DecodeIdle
    /\ \E m \in StartRegistries :
          registryAt(mapStore(m, CustomOID, "customReentrant"), FALSE)

ReentrantCalls(g) ==
    \/ DecodeEnter(g, ReentrantEnvelope)
    \/ DecodeReject(g)
    \/ DecodeDispatch(g)
    \/ DecoderRegisterControl(g, CustomOID, "customReentrant")
    \/ DecoderUnregisterControl(g, CustomOID)
    \/ DecoderGetDecoder(g, CustomOID)
    \/ fewKeys /\ DecoderGetControlOIDs(g)
    \/ \E pkt \in {NewSequence, ReentrantEnvelope} : DecoderDecode(g, pkt)
    \/ DecoderReturn(g)
    \/ RegisterControlEnter(g, CustomOID, "customReentrant")
    \/ RegisterControlLock(g)
    \/ RegisterControlStore(g)
    \/ RegisterControlUnlock(g)
    \/ UnregisterControlLock(g)
    \/ UnregisterControlDelete(g)
    \/ UnregisterControlUnlock(g)
    \/ GetDecoderEnter(g, CustomOID)
    \/ GetDecoderLock(g)
    \/ GetDecoderRead(g)
    \/ GetDecoderUnlock(g)
    \/ GetControlOIDsLock(g)
    \/ GetControlOIDsRange(g)
    \/ GetControlOIDsUnlock(g)

NextReentrant == \E g \in Goroutines : ReentrantCalls(g)

SpecReentrant == InitReentrant /\ [][NextReentrant]_vars /\ Fairness

(***************************************************************************)
(* runControlTest(originalControl): encode, decode the packet and encode    *)
(* the result again, then the same through the wire bytes.  The registry    *)
(* holds the built-in decoders.                                             *)
(***************************************************************************)
\* runControlTest is about to be called on one of the controls.
testStart(controls) ==
    /\ step = "start"
    /\ originalControl \in controls
    /\ encodedPacket = NilPacket
    /\ encodedBytes = <<>>
    /\ fromPacket = Return(NilControl, "")
    /\ packetBytes = <<>>
    /\ wirePacket = [ok |-> FALSE, pkt |-> NilPacket]
    /\ fromBytes = Return(NilControl, "")
    /\ wireBytes = <<>>

InitTest == RegistryInit /\ DecodeIdle /\ testStart(SampleControls)

\* encodedPacket := originalControl.Encode(); encodedBytes := encodedPacket.Bytes()
TestEncode ==
    /\ step = "start"
    /\ encodedPacket' = ControlEncode(originalControl)
    /\ encodedBytes' = Bytes(encodedPacket')
    /\ step' = "encoded"
    /\ UNCHANGED <<originalControl, fromPacket, packetBytes, wirePacket, fromBytes, wireBytes>>
    /\ UNCHANGED <<registryVars, decodeVars>>

\* p.Bytes() of the packet a control's Encode returned; a nil packet (the
\* Encode of an UnknownControl, or of no control at all) faults.
Faulted == <<-1>>
bytesOf(p) == IF p.nil THEN Faulted ELSE Bytes(p)

\* fromPacket, err := Decode(encodedPacket); fromPacket.Encode().Bytes()
TestDecodePacket ==
    /\ step = "encoded"
    /\ fromPacket' = Decode(encodedPacket, Decoders)
    /\ packetBytes' = bytesOf(ControlEncode(fromPacket'.ctrl))
    /\ step' = "fromPacket"
    /\ UNCHANGED <<originalControl, encodedPacket, encodedBytes, wirePacket, fromBytes,
                   wireBytes>>
    /\ UNCHANGED <<registryVars, decodeVars>>

\* pkt, err := ber.DecodePacketErr(encodedBytes)
TestParseBytes ==
    /\ step = "fromPacket"
    /\ wirePacket' = DecodePacketErr(encodedBytes)
    /\ step' = "parsed"
    /\ UNCHANGED <<originalControl, encodedPacket, encodedBytes, fromPacket, packetBytes,
                   fromBytes, wireBytes>>
    /\ UNCHANGED <<registryVars, decodeVars>>

\* fromBytes, err := Decode(pkt); fromBytes.Encode().Bytes()
TestDecodeBytes ==
    /\ step = "parsed"
    /\ fromBytes' = Decode(wirePacket.pkt, Decoders)
    /\ wireBytes' = bytesOf(ControlEncode(fromBytes'.ctrl))
    /\ step' = "fromBytes"
    /\ UNCHANGED <<originalControl, encodedPacket, encodedBytes, fromPacket, packetBytes,
                   wirePacket>>
    /\ UNCHANGED <<registryVars, decodeVars>>

NextTest == TestEncode \/ TestDecodePacket \/ TestParseBytes \/ TestDecodeBytes

SpecTest == InitTest /\ [][NextTest]_vars

(***************************************************************************)
(* One Decode call on an envelope, with the registry as earlier             *)
(* RegisterControl and UnregisterControl calls left it.                     *)
(***************************************************************************)
InitDecode ==
    /\ TestIdle
    /\ \E m \in SampleRegistries : registryAt(m, m = InitialDecoders)
    /\ envelope \in SampleEnvelopes
    /\ trace = [done |-> FALSE, t |-> NoTrace]

\* ctrl, err := Decode(envelope)
DecodeEnvelope ==
    /\ ~trace.done
    /\ trace' = [done |-> TRUE, t |-> DecodeTrace(envelope, Decoders)]
    /\ UNCHANGED <<envelope, registryVars, testVars>>

NextDecode == DecodeEnvelope

SpecDecode == InitDecode /\ [][NextDecode]_vars

(***************************************************************************)
(* Both of the above: a control taken through runControlTest, or one       *)
(* Decode call on an envelope that need not come from Encode.              *)
(***************************************************************************)
InitCodec == InitTest \/ InitDecode

NextCodec ==
    TestEncode \/ TestDecodePacket \/ TestParseBytes \/ TestDecodeBytes \/ DecodeEnvelope

SpecCodec == InitCodec /\ [][NextCodec]_vars

(***************************************************************************)
(* The Pre-Read and Post-Read controls alone: one of them taken through    *)
(* runControlTest, and next to it one Decode call on an envelope that      *)
(* carries one of the two OIDs.                                            *)
(***************************************************************************)
ReadControls == {c \in SampleControls : c.type = "PrePostRead"}
ReadEnvelopes ==
    {e \in SampleEnvelopes :
        /\ ~e.nil /\ e.tag = TagSequence /\ Len(e.children) >= 1
        /\ e.children[1].value.kind = "string"
        /\ e.children[1].value.s \in {ControlOIDPreRead, ControlOIDPostRead}}

InitReads ==
    /\ RegistryInit /\ testStart(ReadControls)
    /\ envelope \in ReadEnvelopes
    /\ trace = [done |-> FALSE, t |-> NoTrace]

NextReads ==
    TestEncode \/ TestDecodePacket \/ TestParseBytes \/ TestDecodeBytes \/ DecodeEnvelope

SpecReads == InitReads /\ [][NextReads]_vars

(***************************************************************************)
(* The calls that only read the registry, made concurrently on a registry  *)
(* of built-in decoders: an Encode call of one control, and GetDecoder,     *)
(* GetControlOIDs and Decode calls of the goroutines.                       *)
(***************************************************************************)
\* The controls Encode is called on: one of each type that has a decoder.
EncodeControls ==
    {ManageDsaIT(TRUE), Paging(TRUE, <<0, 100>>, <<1, 255>>),
     BeheraPasswordPolicy(Int64(127), Int64(-1), 4, BeheraPasswordPolicyErrorMap(4), FALSE),
     ProxiedAuthorization(TRUE, StrUidX), VChuPasswordWarning(Int64(123345)),
     NewPreReadRequest(TRUE, SubSeq(AttrNames, 1, 1))}

\* The envelopes Decode is called on: one that decodes, one with an OID
\* nobody registered, one whose decoder faults for want of a value, and
\* three that Decode gives up on before it asks for a decoder: no children,
\* no SEQUENCE, and three children with a string where the boolean belongs.
ReaderEnvelopes ==
    {PagingEncode(Paging(TRUE, <<0, 100>>, <<>>)),
     withChildren(NewSequence,
                  <<NewString(ClassUniversal, TypePrimitive, TagOctetString, CustomOID)>>),
     withChildren(NewSequence,
                  <<NewString(ClassUniversal, TypePrimitive, TagOctetString,
                              ControlOIDPaging)>>),
     NewSequence,
     OctetAbc,
     withChildren(NewSequence,
                  <<NewString(ClassUniversal, TypePrimitive, TagOctetString,
                              ControlOIDPaging), OctetAbc, NewSequence>>)}

InitReaders ==
    /\ \E m \in StartRegistries : registryAt(m, m = InitialDecoders)
    /\ DecodeIdle /\ testStart(EncodeControls)

ReaderCalls(g) ==
    \/ \E oid \in CallOIDs : GetDecoderEnter(g, oid)
    \/ GetDecoderLock(g)
    \/ GetDecoderRead(g)
    \/ GetDecoderUnlock(g)
    \/ fewKeys /\ GetControlOIDsEnter(g)
    \/ GetControlOIDsLock(g)
    \/ GetControlOIDsRange(g)
    \/ GetControlOIDsUnlock(g)
    \/ \E pkt \in ReaderEnvelopes : DecodeEnter(g, pkt)
    \/ DecodeReject(g)
    \/ DecodeDispatch(g)

NextReaders == TestEncode \/ \E g \in Goroutines : ReaderCalls(g)

SpecReaders == InitReaders /\ [][NextReaders]_vars

(***************************************************************************)
(* Properties of the round trip (SpecTest).                                 *)
(***************************************************************************)
\* C1, as stated: for every built-in control, Decode of the envelope its
\* Encode produced succeeds and returns a control equal to the original,
\* field by field; from the packet and from the wire bytes.
RoundTripEquality ==
    /\ step \in {"fromPacket", "parsed", "fromBytes"} =>
            fromPacket = Return(originalControl, "")
    /\ step = "fromBytes" => fromBytes = Return(originalControl, "")

\* C2: Decode of an encoded built-in control returns no error and a control
\* of the same type, whose encoding has the bytes of the original encoding;
\* the same for the envelope parsed back from its wire bytes.
ReencodingStability ==
    /\ step \in {"fromPacket", "parsed", "fromBytes"} =>
            /\ ~fromPacket.panic /\ fromPacket.err = ""
            /\ fromPacket.ctrl.type = originalControl.type
            /\ packetBytes = encodedBytes
    /\ step \in {"parsed", "fromBytes"} => wirePacket.ok
    /\ step = "fromBytes" =>
            /\ ~fromBytes.panic /\ fromBytes.err = ""
            /\ fromBytes.ctrl.type = originalControl.type
            /\ wireBytes = encodedBytes

\* A paged-results control with a cookie went through both round trips.
ReencodingStabilityWitness ==
    /\ step = "fromBytes"
    /\ originalControl.type = "Paging" /\ originalControl.Cookie # <<>>
    /\ Len(encodedBytes) > 0 /\ wireBytes = encodedBytes /\ packetBytes = encodedBytes

(***************************************************************************)
(* Properties of one Decode call (SpecDecode).                              *)
(***************************************************************************)
\* The envelope is a SEQUENCE node whose first child is a string.
stringOID ==
    /\ ~envelope.nil /\ envelope.tag = TagSequence
    /\ Len(envelope.children) >= 1
    /\ envelope.children[1].value.kind = "string"

\* The OID and the criticality an envelope carries: the criticality is the
\* boolean second child, FALSE when there is none.
envelopeOID == envelope.children[1].value.s
envelopeCriticality ==
    IF Len(envelope.children) >= 2 /\ envelope.children[2].value.kind = "bool"
    THEN envelope.children[2].value.i = Int64(1)
    ELSE FALSE
envelopeValue ==
    IF Len(envelope.children) = 3 THEN envelope.children[3]
    ELSE IF Len(envelope.children) = 2 /\ envelope.children[2].value.kind # "bool"
         THEN envelope.children[2]
    ELSE NilPacket

\* The decoder that was invoked faulted, or returned neither control nor error.
decoderFaulted ==
    /\ trace.t.invoked # NilDecoder
    /\ \/ CallDecoder(trace.t.invoked, envelopeOID, envelopeCriticality, envelopeValue).panic
       \/ CallDecoder(trace.t.invoked, envelopeOID, envelopeCriticality, envelopeValue)
              = Return(NilControl, "")

\* C3: Decode of an envelope node never lets a fault out, whatever decoder
\* is registered for the OID; when the decoder faulted, Decode returns an
\* error and no control.
FailureIsolation ==
    (trace.done /\ ~envelope.nil) =>
        /\ ~trace.t.out.panic
        /\ decoderFaulted => (trace.t.out.err # "" /\ trace.t.out.ctrl = NilControl)

\* A registered decoder that indexes a missing child faulted, and Decode
\* returned an error.
FailureIsolationWitness ==
    /\ trace.done /\ stringOID /\ trace.t.invoked = "customFault"
    /\ decoderFaulted
    /\ trace.t.out.err # "" /\ trace.t.out.ctrl = NilControl

\* The outcome is an UnknownControl with the envelope's OID and criticality.
unknownControlReturned ==
    /\ ~trace.t.out.panic /\ trace.t.out.err = ""
    /\ trace.t.out.ctrl.type = "UnknownControl"
    /\ OID(trace.t.out.ctrl) = envelopeOID
    /\ Criticality(trace.t.out.ctrl) = envelopeCriticality

\* C5, as stated: every envelope with 1 to 3 children and a string OID that
\* has no decoder decodes to an UnknownControl with the envelope's OID and
\* criticality, and no error.
UnknownControlAnyEnvelope ==
    (/\ trace.done /\ stringOID /\ Len(envelope.children) \in 1..3
     /\ envelopeOID \notin DOMAIN Decoders)
        => unknownControlReturned

\* C5, amended: the same for the envelopes with 1 or 2 children, and for
\* those with 3 children whose second child is a boolean.
UnknownControlWellFormed ==
    (/\ trace.done /\ stringOID /\ Len(envelope.children) \in 1..3
     /\ Len(envelope.children) = 3 => envelope.children[2].value.kind = "bool"
     /\ envelopeOID \notin DOMAIN Decoders)
        => unknownControlReturned

\* A critical three-child envelope of an unregistered OID was decoded.
UnknownControlWitness ==
    /\ trace.done /\ stringOID /\ Len(envelope.children) = 3
    /\ envelopeOID = UnregisteredOID /\ envelopeCriticality
    /\ unknownControlReturned

\* C6: Decode returns ErrInvalidControlData and no control for an envelope
\* with no child or with more than 3 children, whatever its first child, and
\* neither looks a decoder up nor calls one.
ChildCountBounds ==
    (/\ trace.done /\ ~envelope.nil
     /\ Len(envelope.children) = 0 \/ Len(envelope.children) > 3)
        => /\ trace.t.out = Return(NilControl, ErrInvalidControlData)
           /\ trace.t.lookups = 0
           /\ trace.t.invoked = NilDecoder

\* A four-child envelope with the Paging OID was rejected.
ChildCountBoundsWitness ==
    /\ trace.done /\ stringOID /\ Len(envelope.children) > 3
    /\ envelopeOID = ControlOIDPaging /\ envelopeOID \in DOMAIN Decoders
    /\ trace.t.out.err = ErrInvalidControlData

(***************************************************************************)
(* Properties of the registry under concurrent callers (Spec).              *)
(***************************************************************************)
\* The goroutines whose last call, a Decode that got as far as the decoder
\* lookup, returned with no registry write since it started.
decoded(g) ==
    /\ pc[g] = "ready" /\ call[g].op = "Decode" /\ ret[g].lookups = 1 /\ stable[g]

\* C4: a Decode that no registry write overlaps calls the decoder of the
\* latest RegisterControl of the envelope's OID (the built-in entries
\* counting as registrations), and returns an UnknownControl when there is
\* none or an UnregisterControl of the OID came after it.
LastRegistrationWins ==
    \A g \in Goroutines :
        decoded(g) =>
            /\ ret[g].invoked = lastRegistered[call[g].oid]
            /\ lastRegistered[call[g].oid] = NilDecoder =>
                    /\ ret[g].out.err = "" /\ ~ret[g].out.panic
                    /\ ret[g].out.ctrl.type = "UnknownControl"
                    /\ OID(ret[g].out.ctrl) = call[g].oid
            /\ lastRegistered[call[g].oid] = "customOk" =>
                    /\ ret[g].out.err = "" /\ ~ret[g].out.panic
                    /\ ret[g].out.ctrl.type = "Custom"
            /\ lastRegistered[call[g].oid] = "decodePaging" =>
                    ret[g].out.ctrl.type = "Paging"

\* One goroutine decoded the Paging OID after its built-in decoder was
\* unregistered, the other a new OID after a decoder was registered for it.
LastRegistrationWinsWitness ==
    \E g, h \in Goroutines :
        /\ decoded(g) /\ call[g].oid = ControlOIDPaging
        /\ ret[g].out.ctrl.type = "UnknownControl"
        /\ decoded(h) /\ call[h].oid = CustomOID
        /\ ret[h].invoked = "customOk" /\ ret[h].out.ctrl.type = "Custom"

\* C7: at most one call is between Lock and Unlock, and the OIDs a
\* GetControlOIDs call collected are, without repetition, the keys the
\* registry held at one instant of the call.
RegistryMutualExclusion ==
    /\ Cardinality({g \in Goroutines : pc[g] \in CriticalPCs}) <= 1
    /\ \A g \in Goroutines :
        /\ pc[g] \in CriticalPCs => mutex = g
        /\ pc[g] = "GetControlOIDs:unlock" =>
                /\ Range(ctrls[g]) \in seen[g]
                /\ Len(ctrls[g]) = Cardinality(Range(ctrls[g]))
        /\ (pc[g] = "ready" /\ call[g].op = "GetControlOIDs") => ret[g].oids = ctrls[g]

\* A GetControlOIDs call during which the registry changed has collected
\* the keys the registry held after the change, the new one first, while
\* the other goroutine waits for the lock to write again.
RegistryMutualExclusionWitness ==
    \E g, h \in Goroutines :
        /\ pc[g] = "GetControlOIDs:unlock" /\ Cardinality(seen[g]) >= 2
        /\ Len(ctrls[g]) = MaxRangeKeys /\ ctrls[g][1] = CustomOID
        /\ pc[h] \in {"RegisterControl:lock", "UnregisterControl:lock"}

\* What RegisterControl returned to the goroutines that called it last.
registerReturned ==
    \A g \in Goroutines :
        (pc[g] = "ready" /\ call[g].op = "RegisterControl") =>
            /\ call[g].decoder = NilDecoder => ret[g].err = ErrMissingControlDecoder
            /\ call[g].decoder # NilDecoder => ret[g].err = ""

\* A step of a RegisterControl call with a nil decoder leaves the registry
\* and its lock alone.
nilRegistrationStep ==
    \A g \in Goroutines :
        (/\ pc'[g] # pc[g] /\ call'[g].op = "RegisterControl"
         /\ call'[g].decoder = NilDecoder)
            => (Decoders' = Decoders /\ mutex' = mutex)

\* C8: RegisterControl with a nil decoder returns ErrMissingControlDecoder
\* and leaves the registry as it was; with a decoder it returns no error.
NilDecoderRejected == []registerReturned /\ [][nilRegistrationStep]_vars

\* RegisterControl(Paging, nil) returned its error while the decoder
\* registered for Paging before stays registered.
NilDecoderRejectedWitness ==
    \E g \in Goroutines :
        /\ pc[g] = "ready" /\ call[g].op = "RegisterControl"
        /\ call[g].decoder = NilDecoder /\ call[g].oid = ControlOIDPaging
        /\ ret[g].err = ErrMissingControlDecoder
        /\ mapLookup(Decoders, ControlOIDPaging) = "customOk"

\* The OIDs of the eight built-in controls.
BuiltinOIDs ==
    {ControlOIDManageDsaIT, ControlOIDPaging, ControlOIDBeheraPasswordPolicy,
     ControlOIDProxiedAuthorization, ControlOIDVChuPasswordMustChange,
     ControlOIDVChuPasswordWarning, ControlOIDPreRead, ControlOIDPostRead}

\* C9: before any RegisterControl or UnregisterControl call the registry
\* holds the eight built-in OIDs and no other: GetControlOIDs returns these
\* eight, and GetDecoder a decoder for each of them and for no other OID.
InitialRegistry ==
    untouched =>
        /\ Cardinality(BuiltinOIDs) = 8
        /\ DOMAIN Decoders = BuiltinOIDs
        /\ \A o \in AllOIDs : (mapLookup(Decoders, o) # NilDecoder) <=> (o \in BuiltinOIDs)
        /\ \A g \in Goroutines :
            /\ (pc[g] = "ready" /\ call[g].op = "GetControlOIDs") =>
                    (Range(ret[g].oids) = BuiltinOIDs /\ Len(ret[g].oids) = 8)
            /\ (pc[g] = "ready" /\ call[g].op = "GetDecoder") =>
                    ((ret[g].dec # NilDecoder) <=> (call[g].oid \in BuiltinOIDs))

\* Before any registration GetControlOIDs returned the eight OIDs, in an
\* order that is not the one of the map literal: the Post-Read OID first,
\* the Paging OID second and the ManageDsaIT OID last.
InitialRegistryWitness ==
    \E g \in Goroutines :
        /\ untouched
        /\ pc[g] = "ready" /\ call[g].op = "GetControlOIDs" /\ Len(ret[g].oids) = 8
        /\ ret[g].oids[1] = ControlOIDPostRead /\ ret[g].oids[2] = ControlOIDPaging
        /\ ret[g].oids[8] = ControlOIDManageDsaIT

(***************************************************************************)
(* Properties of the registry calls under fair scheduling (SpecFair).       *)
(***************************************************************************)
\* No goroutine holds the mutex between two calls.
lockReleased == \A g \in Goroutines : pc[g] = "ready" => mutex # g

\* C10: every registry call returns with the lock released, and a
\* RegisterControl or UnregisterControl call waiting for the lock gets it
\* and returns, whatever GetDecoder and GetControlOIDs calls the other
\* goroutine makes.
LockLiveness ==
    /\ []lockReleased
    /\ \A g \in Goroutines :
        (pc[g] \in {"RegisterControl:lock", "UnregisterControl:lock"}) ~> (pc[g] = "ready")

\* A RegisterControl call waits for the lock while a GetControlOIDs call
\* of the other goroutine is in its loop.
LockLivenessWitness ==
    \E g, h \in Goroutines :
        /\ pc[g] = "RegisterControl:lock" /\ mutex = h
        /\ pc[h] = "GetControlOIDs:range" /\ Len(ctrls[h]) >= 1
(***************************************************************************)
(* Properties of the codecs, on the round trip (SpecTest), on one Decode    *)
(* call (SpecDecode) or on both (SpecCodec).                                *)
(***************************************************************************)
\* The steps of runControlTest after which each result is there.
afterEncode == step \in {"encoded", "fromPacket", "parsed", "fromBytes"}
afterDecodePacket == step \in {"fromPacket", "parsed", "fromBytes"}
afterDecodeBytes == step = "fromBytes"

\* The first child of the encoded envelope is the OID string of the control,
\* and the second, if the control is critical, the boolean TRUE.
oidAndCriticality ==
    /\ Len(encodedPacket.children) >= 1
    /\ encodedPacket.children[1].tag = TagOctetString
    /\ encodedPacket.children[1].value = StringValue(OID(originalControl))
    /\ Criticality(originalControl) =>
          /\ Len(encodedPacket.children) >= 2
          /\ encodedPacket.children[2].tag = TagBoolean
          /\ encodedPacket.children[2].value = BoolValue(TRUE)

\* Decode called the decoder d on the fields of the envelope.
called(d) == trace.done /\ stringOID /\ trace.t.invoked = d

\* The original control is a Behera control with all three fields at -1.
beheraSentinel ==
    /\ originalControl.type = "BeheraPasswordPolicy"
    /\ originalControl.Expire = Int64(-1) /\ originalControl.Grace = Int64(-1)
    /\ originalControl.Error = -1

\* C11: a Behera control with Expire = Grace = Error = -1 encodes to an
\* envelope with no value child (the OID, and the criticality only when
\* critical), and decoding that envelope, as a packet and from its bytes,
\* or any envelope of the Behera OID without a value, gives
\* Expire = Grace = Error = -1, an empty ErrorString and the criticality of
\* the envelope.
BeheraSentinelRoundTrip ==
    /\ called("decodeBehera") /\ envelopeValue.nil =>
          trace.t.out = Return(BeheraPasswordPolicy(Int64(-1), Int64(-1), -1, "", envelopeCriticality),
                               "")
    /\ beheraSentinel =>
        /\ afterEncode =>
              /\ oidAndCriticality
              /\ Len(encodedPacket.children) = IF originalControl.Critical THEN 2 ELSE 1
        /\ afterDecodePacket =>
              fromPacket =
                 Return(BeheraPasswordPolicy(Int64(-1), Int64(-1), -1, "",
                                             originalControl.Critical), "")
        /\ afterDecodeBytes =>
              fromBytes =
                 Return(BeheraPasswordPolicy(Int64(-1), Int64(-1), -1, "",
                                             originalControl.Critical), "")

\* A critical all-sentinel control has been decoded from the bytes.
BeheraSentinelWitness ==
    /\ beheraSentinel /\ originalControl.Critical /\ afterDecodeBytes
    /\ Len(encodedPacket.children) = 2
    /\ fromBytes.ctrl.Expire = Int64(-1) /\ fromBytes.ctrl.Critical

\* The original control is a Behera control with both warnings set.
beheraBoth ==
    /\ originalControl.type = "BeheraPasswordPolicy"
    /\ ~Negative(originalControl.Expire) /\ ~Negative(originalControl.Grace)

\* The children of the value v that are warning wrappers: context tag 0,
\* constructed.
warningWrappers(v) ==
    {i \in 1..Len(v.children) :
        /\ v.children[i].cls = ClassContext /\ v.children[i].tag = 0
        /\ v.children[i].typ = TypeConstructed}

\* C12: for a Behera control with Expire >= 0 and Grace >= 0, Encode emits
\* exactly one warning wrapper (context tag 0), which holds only the expire
\* branch (nested tag 0, the integer Expire) and stands before the error
\* field, if there is one; decoding gives the original Expire and Grace = -1.
BeheraChoicePriority ==
    beheraBoth =>
        /\ afterEncode =>
              /\ oidAndCriticality
              /\ Len(encodedPacket.children) = IF originalControl.Critical THEN 3 ELSE 2
              /\ valueOf(encodedPacket).tag = TagSequence
              /\ warningWrappers(valueOf(encodedPacket)) = {1}
              /\ Len(valueOf(encodedPacket).children) =
                    IF originalControl.Error >= 0 THEN 2 ELSE 1
              /\ Len(valueOf(encodedPacket).children[1].children) = 1
              /\ valueOf(encodedPacket).children[1].children[1].cls = ClassContext
              /\ valueOf(encodedPacket).children[1].children[1].tag = 0
              /\ ParseInt64(valueOf(encodedPacket).children[1].children[1].data)
                    = [ok |-> TRUE, v |-> originalControl.Expire]
              /\ originalControl.Error >= 0 =>
                    /\ valueOf(encodedPacket).children[2].cls = ClassContext
                    /\ valueOf(encodedPacket).children[2].typ = TypePrimitive
                    /\ valueOf(encodedPacket).children[2].tag = 1
        /\ afterDecodePacket =>
              /\ fromPacket.err = "" /\ fromPacket.ctrl.type = "BeheraPasswordPolicy"
              /\ fromPacket.ctrl.Expire = originalControl.Expire
              /\ fromPacket.ctrl.Grace = Int64(-1)
        /\ afterDecodeBytes =>
              /\ fromBytes.err = "" /\ fromBytes.ctrl.type = "BeheraPasswordPolicy"
              /\ fromBytes.ctrl.Expire = originalControl.Expire
              /\ fromBytes.ctrl.Grace = Int64(-1)

\* A control with Expire = 70000, Grace = 999 and an error code has been
\* decoded from the bytes: the grace count is gone.
BeheraChoicePriorityWitness ==
    /\ beheraBoth /\ afterDecodeBytes
    /\ originalControl.Expire = Int64(70000) /\ originalControl.Grace = Int64(999)
    /\ originalControl.Error = 4
    /\ fromBytes.ctrl.Expire = Int64(70000) /\ fromBytes.ctrl.Grace = Int64(-1)

\* Every child of the packet p holds a string.
allStrings(p) == \A i \in 1..Len(p.children) : p.children[i].value.kind = "string"

\* The strings the children of the packet p hold, in order.
childStrings(p) == [i \in 1..Len(p.children) |-> p.children[i].value.s]

\* The entry nested in the OCTET STRING value v is well formed: a DN string
\* and a list of selections, each a type string and a list of value strings.
resultEntry(v) ==
    LET wellFormed(entry) ==
            /\ entry.ok /\ Len(entry.pkt.children) >= 2
            /\ entry.pkt.children[1].value.kind = "string"
            /\ \A i \in 1..Len(entry.pkt.children[2].children) :
                  /\ Len(entry.pkt.children[2].children[i].children) >= 2
                  /\ entry.pkt.children[2].children[i].children[1].value.kind = "string"
                  /\ allStrings(entry.pkt.children[2].children[i].children[2])
    IN  wellFormed(DecodePacketErr(v.data))

\* The result control the entry nested in v stands for.
resultOf(oid, c, v) ==
    LET result(entry) ==
            PrePostRead(FALSE, oid, c, <<>>, entry.children[1].value.s,
                [i \in 1..Len(entry.children[2].children) |->
                    AttributeSelection(entry.children[2].children[i].children[1].value.s,
                                       childStrings(entry.children[2].children[i].children[2]))])
    IN  result(DecodePacketErr(v.data).pkt)

\* What decodePrePostRead makes of an OCTET STRING value, by the bytes of
\* the value, worked out by hand from the bytes: the DN and the selections
\* of the result when err is "", and the error otherwise; "panic caught" is
\* the error Decode makes of a fault.
\*   "abc"          61 62 63: an identifier with a length of 98 octets
\*   EntryResult    SEQUENCE{"uid=x", SEQUENCE{SEQUENCE{"mail", SEQUENCE{"a@b"}}}}
\*   EntryDNAlone   SEQUENCE{"uid=x"}: entry.Children[1] is out of range
\*   EntryIA5DN     SEQUENCE{IA5String "a", SEQUENCE{}}
\*   EntryBadUTF8   SEQUENCE{UTF8String ff, SEQUENCE{}}: does not parse
\*   EntryTimeDN    SEQUENCE{GeneralizedTime, SEQUENCE{}}: the DN is no string
\*   EntryReal      SEQUENCE{"uid=x", SEQUENCE{}, REAL 1}
\*   EntryRealZero  SEQUENCE{"uid=x", SEQUENCE{}, REAL +0}: does not parse
EntryOutcomes ==
    LET outcome(data, err, dn, attrVals) ==
            [data |-> data, err |-> err, DN |-> dn, AttrVals |-> attrVals]
    IN  {outcome(StrAbc, "failed to decode control value", <<>>, <<>>),
         outcome(EntryResult, "", StrUidX, <<AttributeSelection(StrMail, <<StrAB>>)>>),
         outcome(EntryDNAlone, "panic caught", <<>>, <<>>),
         outcome(EntryIA5DN, "", <<97>>, <<>>),
         outcome(EntryBadUTF8, "failed to decode control value", <<>>, <<>>),
         outcome(EntryTimeDN, "panic caught", <<>>, <<>>),
         outcome(EntryReal, "", StrUidX, <<>>),
         outcome(EntryRealZero, "failed to decode control value", <<>>, <<>>)}

\* C13: decodePrePostRead tells a request from a result by the tag of the
\* value alone: a SEQUENCE of strings gives IsRequest = TRUE with Attrs the
\* child strings in order, an OCTET STRING gives IsRequest = FALSE with DN
\* and AttrVals read from the nested entry, and every other tag gives the
\* error "invalid tag on control value" and no control.  What is read from
\* the nested entry is stated twice: by the packet the bytes parse to, and
\* for every OCTET STRING value that is decoded by the outcome listed for
\* its bytes in EntryOutcomes.  Encode chooses the SEQUENCE shape exactly
\* when IsRequest holds, and a control built by one of the four
\* constructors decodes, from the packet and from the bytes, to a control
\* with the same IsRequest, ControlOID, Critical and request or result
\* fields.
PrePostReadShapeDispatch ==
    /\ called("decodePrePostRead") /\ ~envelopeValue.nil =>
          /\ trace.t.out.ctrl.type # "nil" =>
                /\ trace.t.out.ctrl.type = "PrePostRead"
                /\ trace.t.out.ctrl.IsRequest = (envelopeValue.tag = TagSequence)
                /\ envelopeValue.tag \in {TagSequence, TagOctetString}
          /\ envelopeValue.tag = TagSequence /\ allStrings(envelopeValue) =>
                trace.t.out = Return(PrePostRead(TRUE, envelopeOID, envelopeCriticality,
                                                 childStrings(envelopeValue), <<>>, <<>>), "")
          /\ envelopeValue.tag = TagOctetString /\ resultEntry(envelopeValue) =>
                trace.t.out = Return(resultOf(envelopeOID, envelopeCriticality, envelopeValue), "")
          /\ envelopeValue.tag = TagOctetString =>
                \E e \in EntryOutcomes :
                    /\ e.data = envelopeValue.data
                    /\ trace.t.out =
                          IF e.err # "" THEN Return(NilControl, e.err)
                          ELSE Return(PrePostRead(FALSE, envelopeOID, envelopeCriticality,
                                                  <<>>, e.DN, e.AttrVals), "")
          /\ envelopeValue.tag \notin {TagSequence, TagOctetString} =>
                trace.t.out = Return(NilControl, "invalid tag on control value")
    /\ originalControl.type = "PrePostRead" =>
          /\ afterEncode =>
                /\ oidAndCriticality
                /\ Len(encodedPacket.children) = IF originalControl.Critical THEN 3 ELSE 2
                /\ (valueOf(encodedPacket).tag = TagSequence) = originalControl.IsRequest
                /\ ~originalControl.IsRequest => valueOf(encodedPacket).tag = TagOctetString
          /\ afterDecodePacket => fromPacket = Return(originalControl, "")
          /\ afterDecodeBytes => fromBytes = Return(originalControl, "")

\* Decode has read a critical Post-Read envelope whose value is the OCTET
\* STRING of EntryResult as a result with the DN "uid=x" and the value
\* "a@b" of "mail"; and a Pre-Read request for "cn" and "sn" has gone
\* through Encode, the bytes and Decode, and come back as that request.
PrePostReadShapeWitness ==
    /\ called("decodePrePostRead") /\ envelopeOID = ControlOIDPostRead
    /\ envelopeCriticality
    /\ envelopeValue.tag = TagOctetString /\ envelopeValue.data = EntryResult
    /\ trace.t.out.err = "" /\ ~trace.t.out.ctrl.IsRequest
    /\ trace.t.out.ctrl.ControlOID = ControlOIDPostRead /\ trace.t.out.ctrl.Critical
    /\ trace.t.out.ctrl.DN = StrUidX
    /\ trace.t.out.ctrl.AttrVals = <<AttributeSelection(StrMail, <<StrAB>>)>>
    /\ afterDecodeBytes
    /\ originalControl = NewPreReadRequest(FALSE, <<StrCn, StrSn>>)
    /\ valueOf(encodedPacket).tag = TagSequence
    /\ fromBytes.err = "" /\ fromBytes.ctrl.IsRequest
    /\ fromBytes.ctrl.Attrs = <<StrCn, StrSn>>

\* The bytes s are a base-10 integer: an optional sign and one or more digits.
isBase10(s) ==
    LET body == IF s # <<>> /\ s[1] \in {43, 45} THEN Tail(s) ELSE s
    IN  body # <<>> /\ \A k \in 1..Len(body) : body[k] \in 48..57

\* C14: Encode of VChuPasswordWarning(n) carries n as its decimal string in
\* an OCTET STRING, the only child of the value SEQUENCE ("123345" for
\* 123345, "-7" for -7), and decoding the envelope, from the packet and from
\* the bytes, gives VChuPasswordWarning(n); decoding a Warning value whose
\* first child is no base-10 integer, or a decimal number that no int64
\* holds, gives the decoder's parse error and no control, and no fault.
VChuWarningNumericParse ==
    /\ originalControl.type = "VChuPasswordWarning" =>
          /\ afterEncode =>
                /\ oidAndCriticality
                /\ Len(encodedPacket.children) = 2
                /\ valueOf(encodedPacket).tag = TagSequence
                /\ Len(valueOf(encodedPacket).children) = 1
                /\ valueOf(encodedPacket).children[1].tag = TagOctetString
                /\ valueOf(encodedPacket).children[1].cls = ClassUniversal
                /\ isBase10(valueOf(encodedPacket).children[1].data)
                /\ originalControl.n = Int64(123345) =>
                      valueOf(encodedPacket).children[1].data = <<49, 50, 51, 51, 52, 53>>
                /\ originalControl.n = Int64(-7) =>
                      valueOf(encodedPacket).children[1].data = <<45, 55>>
                /\ originalControl.n = Int64(0) =>
                      valueOf(encodedPacket).children[1].data = <<48>>
          /\ afterDecodePacket => fromPacket = Return(originalControl, "")
          /\ afterDecodeBytes => fromBytes = Return(originalControl, "")
    /\ /\ called("decodeVChuPassword") /\ envelopeOID = ControlOIDVChuPasswordWarning
       /\ ~envelopeValue.nil /\ Len(envelopeValue.children) >= 1
       => IF /\ isBase10(envelopeValue.children[1].data)
             /\ envelopeValue.children[1].data # StrTooBig
          THEN /\ trace.t.out.err = ""
               /\ trace.t.out.ctrl.type = "VChuPasswordWarning"
          ELSE trace.t.out = Return(NilControl, "failed to parse value as int")

\* Decode has met a Warning envelope whose payload is "abc" and returned the
\* parse error.
VChuWarningParseErrorWitness ==
    /\ called("decodeVChuPassword") /\ envelopeOID = ControlOIDVChuPasswordWarning
    /\ ~envelopeValue.nil /\ Len(envelopeValue.children) >= 1
    /\ envelopeValue.children[1].data = StrAbc
    /\ trace.t.out = Return(NilControl, "failed to parse value as int")

\* The Encode method of the original control hands no value (nil) to
\* Encode: ManageDsaIT, and Behera with all three fields negative.
encodesNoValue ==
    \/ originalControl.type = "ManageDsaIT"
    \/ /\ originalControl.type = "BeheraPasswordPolicy"
       /\ Negative(originalControl.Expire) /\ Negative(originalControl.Grace)
       /\ originalControl.Error < 0

\* The encoded envelope has a value child: a third child, or a second one
\* that is no boolean.
hasValueChild ==
    \/ Len(encodedPacket.children) = 3
    \/ /\ Len(encodedPacket.children) = 2
       /\ encodedPacket.children[2].tag # TagBoolean

\* The packet p has content: children, or content bytes.
nonEmpty(p) == p.children # <<>> \/ p.data # <<>>

\* The envelope is a SEQUENCE of 1 to 3 children: the OID string, then the
\* boolean TRUE exactly when the control is critical.
oidThenCriticality ==
    /\ encodedPacket.cls = ClassUniversal /\ encodedPacket.typ = TypeConstructed
    /\ encodedPacket.tag = TagSequence
    /\ Len(encodedPacket.children) \in 1..3
    /\ oidAndCriticality
    /\ ~Criticality(originalControl) =>
          \A i \in 1..Len(encodedPacket.children) :
              encodedPacket.children[i].tag # TagBoolean
    /\ Criticality(originalControl) =>
          \A i \in 3..Len(encodedPacket.children) :
              encodedPacket.children[i].tag # TagBoolean

\* C15, as stated: the envelope is a SEQUENCE of the OID string, the boolean
\* criticality exactly when the control is critical, and a value child only
\* if the value sub-tree is non-empty.
EnvelopeShapeNonEmptyValue ==
    afterEncode => oidThenCriticality /\ (hasValueChild => nonEmpty(valueOf(encodedPacket)))

\* C15, corrected: the envelope is a SEQUENCE of 1 to 3 children, in this
\* order: the OID string, the boolean criticality exactly when the control
\* is critical, and the value child exactly when the value handed to Encode
\* is not nil, be it empty or not.
EnvelopeShapeNilValue ==
    afterEncode =>
        /\ oidThenCriticality
        /\ hasValueChild = ~encodesNoValue
        /\ Len(encodedPacket.children) =
              1 + (IF Criticality(originalControl) THEN 1 ELSE 0)
                + (IF encodesNoValue THEN 0 ELSE 1)

\* A critical Pre-Read request for no attributes has been encoded: three
\* children, the third an empty SEQUENCE.
EnvelopeShapeWitness ==
    /\ afterEncode /\ originalControl.type = "PrePostRead"
    /\ originalControl.IsRequest /\ originalControl.Attrs = <<>>
    /\ originalControl.Critical
    /\ Len(encodedPacket.children) = 3
    /\ ~nonEmpty(encodedPacket.children[3])

\* The decoder registered for the OID of the envelope, NilDecoder if none is.
registered == mapLookup(Decoders, envelopeOID)

\* C16: for an envelope of one child, the registered decoder is called with
\* criticality FALSE and no value; for an envelope of two children, with the
\* boolean of the second child as criticality and no value if the second
\* child holds a boolean, and with criticality FALSE and the second child
\* as value otherwise.
ShortEnvelopeFields ==
    trace.done /\ stringOID /\ registered # NilDecoder =>
        /\ Len(envelope.children) \in {1, 2} => trace.t.invoked = registered
        /\ Len(envelope.children) = 1 =>
              trace.t.criticality = FALSE /\ trace.t.value = NilPacket
        /\ Len(envelope.children) = 2 /\ envelope.children[2].value.kind = "bool" =>
              /\ trace.t.criticality = (envelope.children[2].value = BoolValue(TRUE))
              /\ trace.t.value = NilPacket
        /\ Len(envelope.children) = 2 /\ envelope.children[2].value.kind # "bool" =>
              /\ trace.t.criticality = FALSE
              /\ trace.t.value = envelope.children[2]

\* A registered custom decoder was called on an envelope of two children,
\* the second the boolean TRUE, and built a critical control.
ShortEnvelopeWitness ==
    /\ called("customOk") /\ Len(envelope.children) = 2
    /\ envelope.children[2].value = BoolValue(TRUE)
    /\ trace.t.criticality /\ trace.t.value = NilPacket
    /\ trace.t.out.ctrl.criticality

\* C17: for an envelope of three children whose second child holds a
\* boolean b, the decoder registered for the OID is called with criticality
\* b and the third child as value; if the second child holds no boolean,
\* Decode returns an error and no control, and neither looks a decoder up
\* nor calls one nor builds an UnknownControl, whatever the OID.
LongEnvelopeFields ==
    trace.done /\ stringOID /\ Len(envelope.children) = 3 =>
        IF envelope.children[2].value.kind = "bool"
        THEN /\ trace.t.lookups = 1 /\ trace.t.invoked = registered
             /\ trace.t.criticality = (envelope.children[2].value = BoolValue(TRUE))
             /\ trace.t.value = envelope.children[3]
        ELSE /\ trace.t.out.err # "" /\ trace.t.out.ctrl = NilControl
             /\ ~trace.t.out.panic
             /\ trace.t.lookups = 0 /\ trace.t.invoked = NilDecoder

\* Decode has refused a Paging envelope of three children whose second
\* child is a string, although its third child is a value the Paging
\* decoder accepts.
LongEnvelopeWitness ==
    /\ trace.done /\ stringOID /\ Len(envelope.children) = 3
    /\ envelopeOID = ControlOIDPaging /\ registered = "decodePaging"
    /\ envelope.children[2] = OctetAbc
    /\ envelope.children[3] = withChildren(NewSequence, <<Int64Packet(100), OctetAbc>>)
    /\ trace.t.out.err # "" /\ trace.t.invoked = NilDecoder

\* C18, as stated: for a ProxiedAuthorization control with any AuthzID and
\* either criticality, decoding the envelope Encode produced, from the packet
\* and from the bytes, gives a ProxiedAuthorization whose AuthzID is the
\* original one and whose Critical is the criticality of the envelope.
ProxiedAuthorizationRoundTrip ==
    originalControl.type = "ProxiedAuthorization" =>
        /\ afterDecodePacket =>
              /\ fromPacket.err = "" /\ fromPacket.ctrl.type = "ProxiedAuthorization"
              /\ fromPacket.ctrl.AuthzID = originalControl.AuthzID
              /\ fromPacket.ctrl.Critical = (Len(encodedPacket.children) = 3)
        /\ afterDecodeBytes =>
              /\ fromBytes.err = "" /\ fromBytes.ctrl.type = "ProxiedAuthorization"
              /\ fromBytes.ctrl.AuthzID = originalControl.AuthzID
              /\ fromBytes.ctrl.Critical = (Len(encodedPacket.children) = 3)

\* The OIDs whose decoder reads the value: Paging, ProxiedAuthorization,
\* VChu Warning, Pre-Read and Post-Read.
ValueOIDs ==
    {ControlOIDPaging, ControlOIDProxiedAuthorization, ControlOIDVChuPasswordWarning,
     ControlOIDPreRead, ControlOIDPostRead}

\* C19, as stated: when the built-in decoder of a type that needs a value is
\* called for an envelope without a value child, Decode fails with
\* ErrMissingControlValue and returns no control.
MissingValueError ==
    /\ trace.done /\ stringOID /\ envelopeOID \in ValueOIDs
    /\ trace.t.invoked \in BuiltinDecoders /\ trace.t.value = NilPacket
    => trace.t.out = Return(NilControl, ErrMissingControlValue)

\* The value of the envelope has exactly two children, the first an integer.
pagingShape ==
    /\ Len(envelopeValue.children) = 2
    /\ envelopeValue.children[1].value.kind = "int64"

\* C20: when the Paging decoder is called with a value, Decode fails with
\* ErrInvalidControlValue and no control unless the value has exactly two
\* children of which the first holds an integer; if it has, Decode succeeds
\* with Size the integer as a uint32 (100 gives 100, -1 gives 2^32 - 1),
\* Cookie the bytes of the second child, empty or not, and Critical the
\* criticality of the envelope.
PagingValueValidation ==
    called("decodePaging") /\ ~envelopeValue.nil =>
        IF pagingShape
        THEN /\ trace.t.out.err = "" /\ trace.t.out.ctrl.type = "Paging"
             /\ trace.t.out.ctrl.Size = Uint32(envelopeValue.children[1].value.i)
             /\ envelopeValue.children[1].value.i = Int64(100) =>
                   trace.t.out.ctrl.Size = <<0, 100>>
             /\ envelopeValue.children[1].value.i = Int64(-1) =>
                   trace.t.out.ctrl.Size = <<65535, 65535>>
             /\ trace.t.out.ctrl.Cookie = envelopeValue.children[2].data
             /\ trace.t.out.ctrl.Critical = envelopeCriticality
        ELSE trace.t.out = Return(NilControl, ErrInvalidControlValue)

\* Decode has read a critical Paging envelope whose value holds the integer
\* -1 and an empty cookie.
PagingValueWitness ==
    /\ called("decodePaging") /\ ~envelopeValue.nil /\ pagingShape
    /\ envelopeCriticality
    /\ envelopeValue.children[1].value.i = Int64(-1)
    /\ trace.t.out.ctrl.Size = <<65535, 65535>> /\ trace.t.out.ctrl.Cookie = <<>>
    /\ trace.t.out.ctrl.Critical

(***************************************************************************)
(* Properties of the registry under concurrent callers (Spec).              *)
(***************************************************************************)
\* Goroutine g takes the step of its call that leads from pc a to pc b.
moves(g, a, b) == pc[g] = a /\ pc'[g] = b

\* What one step does to the registry: the entry of an OID changes only in
\* the store of a RegisterControl or the delete of an UnregisterControl of
\* that OID; the delete leaves no entry for its OID, and leaves the map as
\* it was if there was none; a GetDecoder that reads after the last write
\* to its OID was a delete gets no decoder, and the OIDs a GetControlOIDs
\* has collected when it unlocks hold no such OID.
registryFrameStep ==
    /\ \A o \in AllOIDs :
          \/ mapLookup(Decoders', o) # mapLookup(Decoders, o)
          \/ (o \in DOMAIN Decoders') # (o \in DOMAIN Decoders)
          =>
              \E g \in Goroutines :
                  /\ call[g].oid = o
                  /\ \/ moves(g, "RegisterControl:store", "RegisterControl:unlock")
                     \/ moves(g, "UnregisterControl:delete", "UnregisterControl:unlock")
    /\ \A g \in Goroutines :
          moves(g, "UnregisterControl:delete", "UnregisterControl:unlock") =>
              /\ call[g].oid \notin DOMAIN Decoders'
              /\ call[g].oid \notin DOMAIN Decoders => Decoders' = Decoders
    /\ \A g \in Goroutines :
          /\ moves(g, "GetDecoder:unlock", "ready") /\ call[g].op = "GetDecoder"
          /\ lastRegistered[call[g].oid] = NilDecoder /\ mutex = g
          => ret'[g].dec = NilDecoder
    /\ \A g \in Goroutines :
          moves(g, "GetControlOIDs:unlock", "ready") =>
              \A o \in AllOIDs :
                  lastRegistered[o] = NilDecoder => o \notin Range(ret'[g].oids)

\* C21: RegisterControl(o, d) and UnregisterControl(o) change at most the
\* entry of o; UnregisterControl of an OID that is not registered leaves the
\* registry as it was; once UnregisterControl(o) has deleted the entry, and
\* until o is registered again, GetDecoder(o) returns no decoder and
\* GetControlOIDs does not hold o.
RegistryFrame == [][registryFrameStep]_vars

\* The Paging decoder was unregistered while the custom OID was registered,
\* the other entries are as they were at the start, and a GetDecoder of the
\* Paging OID returned no decoder.
RegistryFrameWitness ==
    /\ ControlOIDPaging \notin DOMAIN Decoders
    /\ mapLookup(Decoders, CustomOID) = "customOk"
    /\ \A o \in DOMAIN InitialDecoders \ {ControlOIDPaging} :
          mapLookup(Decoders, o) = InitialDecoders[o]
    /\ \E g \in Goroutines :
          /\ pc[g] = "ready" /\ call[g].op = "GetDecoder" /\ call[g].oid = ControlOIDPaging
          /\ ret[g].dec = NilDecoder

(***************************************************************************)
(* Properties of the calls that only read the registry (SpecReaders).       *)
(***************************************************************************)
\* Decode gets as far as GetDecoder on the packet p: a SEQUENCE of 1 to 3
\* children, the first a string and, if there are three, the second a boolean.
reachesLookup(p) ==
    /\ ~p.nil /\ p.tag = TagSequence
    /\ Len(p.children) \in 1..3
    /\ p.children[1].value.kind = "string"
    /\ Len(p.children) = 3 => p.children[2].value.kind = "bool"

\* Goroutine g has returned from a Decode call.
decodeReturned(g) == pc[g] = "ready" /\ call[g].op = "Decode"

\* C22, as stated: Encode, GetDecoder, GetControlOIDs and Decode calls,
\* whatever their outcome, leave the registry of the built-in decoders as
\* it was, and every Decode call reads the registry exactly once.
ReadersOneLookup ==
    /\ [][Decoders' = Decoders]_vars
    /\ [](\A g \in Goroutines : decodeReturned(g) => ret[g].lookups = 1)

\* C22, corrected: Encode, GetDecoder, GetControlOIDs and Decode calls,
\* whatever their outcome, leave the registry of the built-in decoders as
\* it was; a Decode call reads the registry at most once: once if the
\* envelope is a SEQUENCE of 1 to 3 children with a string OID (and a
\* boolean second child if there are three), and not at all otherwise.
ReadersLeaveRegistry ==
    /\ [][Decoders' = Decoders]_vars
    /\ [](/\ Decoders \in StartRegistries
          /\ \A g \in Goroutines :
                /\ ret[g].lookups <= 1
                /\ decodeReturned(g) =>
                      ret[g].lookups = IF reachesLookup(call[g].pkt) THEN 1 ELSE 0)

\* After an Encode call, with the registry as the package loaded it, one
\* goroutine's Decode ended in a recovered fault of the Paging decoder,
\* having read the registry once, and the other's returned
\* ErrInvalidControlData without reading it.
ReadersWitness ==
    /\ step = "encoded" /\ ~encodedPacket.nil
    /\ Decoders = InitialDecoders
    /\ \E g, h \in Goroutines :
          /\ decodeReturned(g) /\ ret[g].out.err = "panic caught"
          /\ ret[g].invoked = "decodePaging" /\ ret[g].lookups = 1
          /\ decodeReturned(h) /\ ret[h].out.err = ErrInvalidControlData
          /\ ret[h].lookups = 0

(***************************************************************************)
(* More properties of one Decode call (SpecDecode).                         *)
(***************************************************************************)
\* The value of the envelope is a Behera value with the error field alone
\* (context tag 1), which holds the integer v.
beheraErrorAlone(v) ==
    /\ ~envelopeValue.nil /\ Len(envelopeValue.children) = 1
    /\ envelopeValue.children[1].tag = 1
    /\ ParseInt64(envelopeValue.children[1].data) = [ok |-> TRUE, v |-> Int64(v)]

\* C23: when decodeBehera meets a tag-1 child that holds the integer v,
\* decoding succeeds, Error is the int8 congruent to v modulo 2^8 (260 gives
\* 4, 300 gives 44, 128 gives -128, -129 gives 127) and ErrorString is the
\* table entry of Error if Error is in 0..8 and empty otherwise.
BeheraErrorField ==
    \A v \in ErrorCodes :
        called("decodeBehera") /\ beheraErrorAlone(v) =>
            /\ trace.t.out.err = "" /\ trace.t.out.ctrl.type = "BeheraPasswordPolicy"
            /\ trace.t.out.ctrl.Error \in -128..127
            /\ (trace.t.out.ctrl.Error - v) % 256 = 0
            /\ v = 260 => trace.t.out.ctrl.Error = 4
            /\ v = 300 => trace.t.out.ctrl.Error = 44
            /\ v = 128 => trace.t.out.ctrl.Error = -128
            /\ v = -129 => trace.t.out.ctrl.Error = 127
            /\ trace.t.out.ctrl.ErrorString =
                  IF trace.t.out.ctrl.Error \in 0..8
                  THEN BeheraPasswordPolicyErrorMap(trace.t.out.ctrl.Error)
                  ELSE ""
            /\ trace.t.out.ctrl.Error \in 0..8 => trace.t.out.ctrl.ErrorString # ""
            /\ trace.t.out.ctrl.Error = 4 =>
                  trace.t.out.ctrl.ErrorString
                     = "Policy requires old password in order to change password"
            /\ trace.t.out.ctrl.Expire = Int64(-1) /\ trace.t.out.ctrl.Grace = Int64(-1)
            /\ trace.t.out.ctrl.Critical = envelopeCriticality

\* Decode has read a Behera envelope whose error field holds 260 as the
\* code 4, with the text of the table.
BeheraErrorFieldWitness ==
    /\ called("decodeBehera") /\ beheraErrorAlone(260)
    /\ trace.t.out.ctrl.Error = 4
    /\ trace.t.out.ctrl.ErrorString
          = "Policy requires old password in order to change password"

\* C24: every return of Decode yields either a control or an error and not
\* both: with an error the control is nil, also when the decoder returned a
\* control with its error or faulted; without an error the control is not
\* nil; and a registered decoder that returns neither a control nor an error
\* makes Decode return an error.
DecodeResultExclusive ==
    trace.done /\ ~trace.t.out.panic =>
        /\ trace.t.out.err # "" => trace.t.out.ctrl = NilControl
        /\ trace.t.out.err = "" => trace.t.out.ctrl.type # "nil"
        /\ trace.t.invoked \in {"customNil", "customBoth", "customErr"} =>
              trace.t.out.err # ""
        /\ trace.t.invoked = "customNil" => trace.t.out.err = "panic caught"

\* Decode called a registered decoder that returns a control together with
\* an error, and returned the error alone.
DecodeResultExclusiveWitness ==
    /\ called("customBoth")
    /\ CallDecoder("customBoth", envelopeOID, envelopeCriticality, envelopeValue).ctrl.type
          = "Custom"
    /\ trace.t.out = Return(NilControl, "custom decoder error")


\* Goroutine g is inside RegisterControl, UnregisterControl, GetDecoder or
\* GetControlOIDs, or inside the GetDecoder call of Decode.
inRegistryCall(g) == pc[g] \notin {"ready", "Decode:dispatch", "Decode:return"}

\* A decoder called by goroutine g's Decode is running: it has not made a call
\* yet, or the call it made has returned.
decoderRuns(g) ==
    \/ pc[g] = "Decode:dispatch"
    \/ pc[g] = "ready" /\ call[g].outer.active

\* C25: Decode does not hold the registry lock while the decoder runs: in
\* every state where a decoder called by a goroutine's Decode is running,
\* that goroutine does not hold the lock; and every call of RegisterControl,
\* UnregisterControl, GetDecoder or GetControlOIDs, made by the decoder
\* itself or by another goroutine, and every registry lookup of a Decode the
\* decoder starts, returns, however long any decoder runs.
DecoderOutsideLock ==
    /\ [](\A g \in Goroutines : decoderRuns(g) => mutex # g)
    /\ \A g \in Goroutines : inRegistryCall(g) ~> ~inRegistryCall(g)

\* C25 witness: the decoder of one goroutine's Decode has called
\* UnregisterControl and that call has returned, the decoder has not
\* returned yet, and meanwhile the other goroutine's GetDecoder has returned
\* no decoder for the OID.
DecoderOutsideLockWitness ==
    /\ pc[1] = "ready" /\ call[1].outer.active /\ call[1].op = "UnregisterControl"
    /\ pc[2] = "ready" /\ call[2].op = "GetDecoder" /\ ret[2].dec = NilDecoder
    /\ mapLookup(Decoders, CustomOID) = NilDecoder


\* The registry in which oid has the decoder d and every other OID the
\* decoder it has now.
registryWith(oid, d) ==
    IF d = NilDecoder THEN mapDelete(Decoders, oid) ELSE mapStore(Decoders, oid, d)

\* Goroutine g's Decode has read the registry and has not returned.
holdsDecoder(g) ==
    call[g].op = "Decode" /\ pc[g] \in {"GetDecoder:unlock", "Decode:dispatch"}

\* What a step does to a Decode call that registry writes of other
\* goroutines may overlap.
decodeRaceStep ==
    \A g \in Goroutines :
        /\ call[g].op = "Decode" /\ moves(g, "GetDecoder:read", "GetDecoder:unlock") =>
              /\ mutex = g /\ Decoders' = Decoders
              /\ \A h \in Goroutines \ {g} : pc[h] \notin CriticalPCs
              /\ dec'[g] = mapLookup(Decoders, call[g].oid)
        /\ holdsDecoder(g) /\ pc'[g] # "ready" => dec'[g] = dec[g]
        /\ holdsDecoder(g) /\ pc'[g] = "ready" =>
              /\ ret'[g].invoked = dec[g]
              /\ ret'[g].out = Decode(call[g].pkt, registryWith(call[g].oid, dec[g]))

\* C26: a Decode that RegisterControl or UnregisterControl calls of another
\* goroutine overlap reads the decoder of its OID in one step, in which it
\* holds the lock and no other call is between Lock and Unlock, so that the
\* registry it reads is the one before or the one after each overlapping
\* write; it returns what Decode returns in a registry that gives the OID
\* that decoder: the control of the old decoder, of the new decoder, or an
\* UnknownControl, and no error or fault.  A Decode that no write overlaps
\* and whose OID is not registered returns an UnknownControl.
DecodeRaceLinearizable ==
    /\ [][decodeRaceStep]_vars
    /\ [](\A g \in Goroutines :
            decodeReturned(g) /\ ret[g].lookups = 1 =>
                /\ ret[g].out.err = "" /\ ~ret[g].out.panic
                /\ ret[g].invoked \in {NilDecoder, "customOk", "decodePaging"}
                /\ ret[g].invoked = NilDecoder =>
                      /\ ret[g].out.ctrl.type = "UnknownControl"
                      /\ OID(ret[g].out.ctrl) = call[g].oid
                /\ ret[g].invoked = "customOk" => ret[g].out.ctrl.type = "Custom"
                /\ ret[g].invoked = "decodePaging" => ret[g].out.ctrl.type = "Paging"
                /\ stable[g] /\ mapLookup(Decoders, call[g].oid) = NilDecoder =>
                      ret[g].out.ctrl.type = "UnknownControl")

\* C26 witness: a Decode of the Paging envelope has returned the Paging
\* control of the built-in decoder although a RegisterControl of another
\* decoder for the Paging OID, which wrote the registry during the Decode
\* call, has returned as well.
DecodeRaceWitness ==
    \E g, h \in Goroutines :
        /\ decodeReturned(g) /\ ret[g].lookups = 1 /\ ~stable[g]
        /\ call[g].oid = ControlOIDPaging
        /\ ret[g].invoked = "decodePaging" /\ ret[g].out.ctrl.type = "Paging"
        /\ pc[h] = "ready" /\ call[h].op = "RegisterControl"
        /\ call[h].oid = ControlOIDPaging
        /\ mapLookup(Decoders, ControlOIDPaging) = "customOk"

====
